---- MODULE Spec2Model ----
(***************************************************************************)
(* Workflow execution engine (api/internal/execution): ExecuteWorkflow     *)
(* walks a node/edge graph from the start node, dispatches per node type,  *)
(* threads a variables map through the run and records one step per visit. *)
(* Temperatures and thresholds are float64 in the code; here they are      *)
(* integers counting tenths of a degree (28.5 is 285), on which the        *)
(* comparison operators agree with the float comparisons.                  *)
(***************************************************************************)
EXTENDS Integers, Sequences, FiniteSets, TLC

VARIABLES workflow, req, api, pc, cur, stack, variables, steps, response,
          returnedErr, sentEmails, sendAttempts, apiCalls, earlier, inflight, probe

vars == <<workflow, req, api, pc, cur, stack, variables, steps, response,
          returnedErr, sentEmails, sendAttempts, apiCalls, earlier, inflight, probe>>

\* workflow, req, api   the arguments of ExecuteWorkflow and the API client of the engine
\* pc, cur, stack       where the run is: the node executeNode is called on and the
\*                      edge loops waiting for it, innermost first
\* variables, steps     execCtx.Variables and execCtx.Steps
\* response, returnedErr  what ExecuteWorkflow returned: the response and the error
\* sentEmails           the log of the InMemoryEmailService
\* sendAttempts         number of SendEmail calls made
\* apiCalls             number of CallAPI calls made
\* earlier              the responses of the runs the engine finished before this one
\* inflight             the email nodes that runs on other goroutines are executing
\* probe                arguments and result of a function applied on its own

\* ------------------------------------------------------------ bounds

\* longest edge list of the generated workflows
MaxEdges == 3
\* largest number of steps the model lets a run append (cyclic graphs)
MaxSteps == 6
\* temperatures and thresholds given to the condition node on its own range
\* over -MaxTemp..MaxTemp
MaxTemp == 3
\* longest list of location options given to the integration service on its own
MaxOptions == 2
\* longest list of input fields declared to the validator on its own
MaxFields == 2
\* longest log of sent emails the email service starts from on its own
MaxLog == 2
\* runs that execute at the same time on one engine
NumRuns == 2
\* most ids the path search taken step by step may put on its queue
MaxQueued == 8
\* SaveWorkflow calls made one after the other on one database
MaxSaves == 2

\* ------------------------------------------------------------ values

\* interface{} values of the variables / formData maps
Nil == [k |-> "nil", s |-> "", n |-> 0, b |-> FALSE]
Str(x) == [k |-> "string", s |-> x, n |-> 0, b |-> FALSE]
Num(x) == [k |-> "float64", s |-> "", n |-> x, b |-> FALSE]
Bool(x) == [k |-> "bool", s |-> "", n |-> 0, b |-> x]

\* map[string]interface{}
EmptyMap == [x \in {} |-> Nil]
Has(m, key) == key \in DOMAIN m
SetVariable(m, key, value) ==
    [x \in DOMAIN m \cup {key} |-> IF x = key THEN value ELSE m[x]]
\* for key, value := range src { dst[key] = value }
CopyInto(dst, src) ==
    [x \in DOMAIN dst \cup DOMAIN src |-> IF x \in DOMAIN src THEN src[x] ELSE dst[x]]

\* map lookup that yields the nil interface for an absent key
Lookup(m, key) == IF Has(m, key) THEN m[key] ELSE Nil

\* errors are wrap chains, outermost message first (fmt.Errorf("...: %w", err));
\* the empty chain is the nil error
NoErr == <<>>
Wrap(msg, err) == <<msg>> \o err

\* ------------------------------------------------------------ strings

\* strings.TrimSpace(v) == ""
IsBlank(str) == str \in {"", " ", "  "}

\* strings.ToLower over the city names of the model
Lower(str) ==
    CASE str \in {"Sydney", "sydney", "SYDNEY"} -> "sydney"
      [] str \in {"Melbourne", "melbourne"} -> "melbourne"
      [] OTHER -> str

\* variant: the names are compared as they are written
EqualExact(a, b) == a = b

\* strings.EqualFold
EqualFold(a, b) == Lower(a) = Lower(b)

\* net/mail.ParseAddress succeeds
ParsesAsAddress(str) == str \in {"alice@example.com", "bob@example.com"}

\* ------------------------------------------------------------ validator

\* variant: a number that is zero counts as empty too
isEmptyValueZero(value) ==
    IF value.k = "nil" THEN TRUE
    ELSE IF value.k = "string" THEN IsBlank(value.s)
    ELSE IF value.k = "float64" THEN value.n = 0
    ELSE FALSE

\* isEmptyValue
isEmptyValue(value) ==
    IF value.k = "nil" THEN TRUE
    ELSE IF value.k = "string" THEN IsBlank(value.s)
    ELSE FALSE

\* validateBasicFieldValue: the message, "" when the value passes
validateBasicFieldValue(fieldName, value) ==
    CASE fieldName = "email" ->
            IF value.k = "string"
            THEN IF ParsesAsAddress(value.s) THEN "" ELSE "must be a valid email address"
            ELSE "must be a string"
      [] fieldName = "name" ->
            IF value.k = "string"
            THEN IF IsBlank(value.s) THEN "cannot be empty" ELSE ""
            ELSE "must be a string"
      [] OTHER -> ""

\* variant: the loop stops at the first field that fails
RECURSIVE FieldErrorsFailFast(_, _)
FieldErrorsFailFast(formData, inputFields) ==
    IF inputFields = <<>> THEN <<>>
    ELSE LET fieldName == Head(inputFields)
         IN IF ~Has(formData, fieldName) \/ isEmptyValue(formData[fieldName])
            THEN <<"field '" \o fieldName \o "' is required">>
            ELSE LET msg == validateBasicFieldValue(fieldName, formData[fieldName])
                 IN IF msg # ""
                    THEN <<"field '" \o fieldName \o "': " \o msg>>
                    ELSE FieldErrorsFailFast(formData, Tail(inputFields))

\* the errors slice ValidateFormData collects over the declared fields
RECURSIVE FieldErrors(_, _)
FieldErrors(formData, inputFields) ==
    IF inputFields = <<>> THEN <<>>
    ELSE LET fieldName == Head(inputFields)
             rest == FieldErrors(formData, Tail(inputFields))
         IN IF ~Has(formData, fieldName) \/ isEmptyValue(formData[fieldName])
            THEN <<"field '" \o fieldName \o "' is required">> \o rest
            ELSE LET msg == validateBasicFieldValue(fieldName, formData[fieldName])
                 IN IF msg # ""
                    THEN <<"field '" \o fieldName \o "': " \o msg>> \o rest
                    ELSE rest

\* strings.Join(elems, sep)
RECURSIVE Join(_, _)
Join(elems, sep) ==
    IF Len(elems) = 0 THEN ""
    ELSE IF Len(elems) = 1 THEN elems[1]
    ELSE elems[1] \o sep \o Join(Tail(elems), sep)

\* variant: a submission without any field is refused before the rules are
\* looked at
ValidateFormDataRefusingEmpty(formData, inputFields) ==
    IF DOMAIN formData = {} THEN <<"validation errors: no form data">>
    ELSE IF Len(inputFields) = 0 THEN NoErr
    ELSE LET errors == FieldErrors(formData, inputFields)
         IN IF Len(errors) > 0
            THEN <<"validation errors: " \o Join(errors, "; ")>>
            ELSE NoErr

\* DefaultInputValidator.ValidateFormData; inputFields is
\* nodeData.Metadata.InputFields, empty also when nodeData is nil
ValidateFormData(formData, inputFields) ==
    IF Len(inputFields) = 0 THEN NoErr
    ELSE LET errors == FieldErrors(formData, inputFields)
         IN IF Len(errors) > 0
            THEN <<"validation errors: " \o Join(errors, "; ")>>
            ELSE NoErr

\* ------------------------------------------------------------ email

\* variant: the payload is stored before the parameters are looked at
SendEmailStoringFirst(log, to, subject, body) ==
    LET stored == Append(log, [to |-> to, subject |-> subject, body |-> body])
    IN IF to = "" THEN [err |-> <<"recipient email is required">>, sentEmails |-> stored]
       ELSE IF subject = "" THEN [err |-> <<"email subject is required">>, sentEmails |-> stored]
       ELSE [err |-> NoErr, sentEmails |-> stored]

\* InMemoryEmailService.SendEmail: the error and the log after the call
SendEmail(log, to, subject, body) ==
    IF to = "" THEN [err |-> <<"recipient email is required">>, sentEmails |-> log]
    ELSE IF subject = "" THEN [err |-> <<"email subject is required">>, sentEmails |-> log]
    ELSE [err |-> NoErr,
          sentEmails |-> Append(log, [to |-> to, subject |-> subject, body |-> body])]

\* ------------------------------------------------------------ integration

\* IntegrationService.findCityCoordinates: index of the first option whose
\* city equals the name under case folding, 0 when none does
RECURSIVE findCityFrom(_, _, _)
findCityFrom(city, options, i) ==
    IF i > Len(options) THEN 0
    ELSE IF EqualFold(options[i].city, city) THEN i
    ELSE findCityFrom(city, options, i + 1)

\* variant: the first option stands in when no option matches
findCityOrFirst(city, options) ==
    IF findCityFrom(city, options, 1) = 0 /\ Len(options) > 0
    THEN 1
    ELSE findCityFrom(city, options, 1)

findCityCoordinates(city, options) == findCityFrom(city, options, 1)

\* IntegrationService.getCityNames
getCityNames(options) == [i \in 1..Len(options) |-> options[i].city]

\* IntegrationService.buildAPIURL: the endpoint with {lat} and {lon} replaced
buildAPIURL(template, lat, lon) == [endpoint |-> template, lat |-> lat, lon |-> lon]

\* APIClient.CallAPI of the collaborator a run is given: the outcome
\* configured for the latitude in the URL
CallAPI(client, url) == client[url.lat]

\* IntegrationService.extractTemperature: error chain and value
extractTemperature(apiResponse) ==
    IF apiResponse.kind = "weather"
    THEN [err |-> NoErr, temperature |-> apiResponse.temperature]
    ELSE [err |-> <<"current_weather not found in API response">>, temperature |-> 0]

\* IntegrationService.ExecuteIntegration: err, result map, outbound calls made
ExecuteIntegration(client, node, inputVariables) ==
    IF node.data # "json"
    THEN [err |-> <<"failed to parse integration node data", "invalid JSON">>,
          result |-> EmptyMap, calls |-> 0]
    ELSE IF ~Has(inputVariables, "city")
    THEN [err |-> <<"required input variable 'city' not found">>,
          result |-> EmptyMap, calls |-> 0]
    ELSE IF inputVariables["city"].k # "string"
    THEN [err |-> <<"city must be a string">>, result |-> EmptyMap, calls |-> 0]
    ELSE LET city == inputVariables["city"].s
             i == findCityCoordinates(city, node.options)
         IN IF i = 0
            THEN [err |-> <<"city '" \o city \o "' not found in available options",
                            "[" \o Join(getCityNames(node.options), " ") \o "]">>,
                  result |-> EmptyMap, calls |-> 0]
            ELSE LET coordinates == node.options[i]
                     apiURL == buildAPIURL(node.apiEndpoint, coordinates.lat, coordinates.lon)
                     apiResponse == CallAPI(client, apiURL)
                 IN IF apiResponse.kind = "error"
                    THEN [err |-> Wrap("API call failed", <<apiResponse.message>>),
                          result |-> EmptyMap, calls |-> 1]
                    ELSE LET t == extractTemperature(apiResponse)
                         IN IF t.err # NoErr
                            THEN [err |-> Wrap("failed to extract temperature", t.err),
                                  result |-> EmptyMap, calls |-> 1]
                            ELSE [err |-> NoErr,
                                  result |-> SetVariable(SetVariable(EmptyMap,
                                      "temperature", Num(t.temperature)),
                                      "location", Str(coordinates.city)),
                                  calls |-> 1]

\* ------------------------------------------------------------ engine: nodes

\* what a node's dispatch hands back to executeNode: its error, its output,
\* and the variables, email log and outbound call count it leaves behind;
\* sends counts the SendEmail calls, made by the email node only
Outcome(err, output, vs, log, calls) ==
    [err |-> err, output |-> output, variables |-> vs, sentEmails |-> log, calls |-> calls,
     sends |-> 0]

\* Engine.executeStartNode
executeStartNode(node, vs, log) ==
    Outcome(NoErr,
            SetVariable(SetVariable(EmptyMap, "message", Str("Begin weather check workflow")),
                        "nodeId", Str(node.id)),
            vs, log, 0)

\* variant: the form data is validated and echoed but not stored
executeFormNodeNoCopy(node, formData, vs, log) ==
    LET err == IF node.data = "json"
               THEN ValidateFormData(formData, node.inputFields)
               ELSE NoErr
    IN IF err # NoErr
       THEN Outcome(Wrap("form validation failed", err), EmptyMap, vs, log, 0)
       ELSE Outcome(NoErr, formData, vs, log, 0)

\* variant: the form data is stored before it is validated
executeFormNodeCopyFirst(node, formData, vs, log) ==
    LET err == IF node.data = "json"
               THEN ValidateFormData(formData, node.inputFields)
               ELSE NoErr
    IN IF err # NoErr
       THEN Outcome(Wrap("form validation failed", err), EmptyMap, CopyInto(vs, formData), log, 0)
       ELSE Outcome(NoErr, formData, CopyInto(vs, formData), log, 0)

\* variant: a form field does not replace a variable that is already set
executeFormNodeKeepingExisting(node, formData, vs, log) ==
    LET err == IF node.data = "json"
               THEN ValidateFormData(formData, node.inputFields)
               ELSE NoErr
    IN IF err # NoErr
       THEN Outcome(Wrap("form validation failed", err), EmptyMap, vs, log, 0)
       ELSE Outcome(NoErr, formData, CopyInto(formData, vs), log, 0)

\* Engine.executeFormNode: node data that is empty or does not parse is not
\* validated against
executeFormNode(node, formData, vs, log) ==
    LET err == IF node.data = "json"
               THEN ValidateFormData(formData, node.inputFields)
               ELSE NoErr
    IN IF err # NoErr
       THEN Outcome(Wrap("form validation failed", err), EmptyMap, vs, log, 0)
       ELSE Outcome(NoErr, formData, CopyInto(vs, formData), log, 0)

\* variant: the variables are stored before the error is looked at
executeIntegrationNodeStoring(client, node, formData, vs, log) ==
    LET inputVariables == CopyInto(EmptyMap, formData)
        r == ExecuteIntegration(client, node, inputVariables)
        stored == SetVariable(SetVariable(vs, "temperature", Lookup(r.result, "temperature")),
                              "location", Lookup(r.result, "location"))
    IN IF r.err # NoErr
       THEN Outcome(Wrap("integration execution failed", r.err), EmptyMap, stored, log, r.calls)
       ELSE Outcome(NoErr, r.result, stored, log, r.calls)

\* variant: a call that failed is made once more before giving up
executeIntegrationNodeRetrying(client, node, formData, vs, log) ==
    LET inputVariables == CopyInto(EmptyMap, formData)
        first == ExecuteIntegration(client, node, inputVariables)
        again == ExecuteIntegration(client, node, inputVariables)
        r == IF first.err # NoErr /\ first.calls > 0
             THEN [again EXCEPT !.calls = first.calls + again.calls]
             ELSE first
    IN IF r.err # NoErr
       THEN Outcome(Wrap("integration execution failed", r.err), EmptyMap, vs, log, r.calls)
       ELSE Outcome(NoErr, r.result,
                    SetVariable(SetVariable(vs, "temperature", r.result["temperature"]),
                                "location", r.result["location"]),
                    log, r.calls)

\* Engine.executeIntegrationNode: the input variables are a copy of the
\* run's form data
executeIntegrationNode(client, node, formData, vs, log) ==
    LET inputVariables == CopyInto(EmptyMap, formData)
        r == ExecuteIntegration(client, node, inputVariables)
    IN IF r.err # NoErr
       THEN Outcome(Wrap("integration execution failed", r.err), EmptyMap, vs, log, r.calls)
       ELSE LET v1 == IF Has(r.result, "temperature")
                      THEN SetVariable(vs, "temperature", r.result["temperature"])
                      ELSE vs
                v2 == IF Has(r.result, "location")
                      THEN SetVariable(v1, "location", r.result["location"])
                      ELSE v1
            IN Outcome(NoErr, r.result, v2, log, r.calls)

\* variant: greater_than_or_equal leaves the boundary out
evaluateConditionStrict(temperature, operator, threshold) ==
    CASE operator = "greater_than" -> [err |-> NoErr, met |-> temperature > threshold]
      [] operator = "less_than" -> [err |-> NoErr, met |-> temperature < threshold]
      [] operator = "equals" -> [err |-> NoErr, met |-> temperature = threshold]
      [] operator = "greater_than_or_equal" -> [err |-> NoErr, met |-> temperature > threshold]
      [] operator = "less_than_or_equal" -> [err |-> NoErr, met |-> temperature <= threshold]
      [] OTHER -> [err |-> <<"unsupported operator: " \o operator>>, met |-> FALSE]

\* Engine.evaluateCondition
evaluateCondition(temperature, operator, threshold) ==
    CASE operator = "greater_than" -> [err |-> NoErr, met |-> temperature > threshold]
      [] operator = "less_than" -> [err |-> NoErr, met |-> temperature < threshold]
      [] operator = "equals" -> [err |-> NoErr, met |-> temperature = threshold]
      [] operator = "greater_than_or_equal" -> [err |-> NoErr, met |-> temperature >= threshold]
      [] operator = "less_than_or_equal" -> [err |-> NoErr, met |-> temperature <= threshold]
      [] OTHER -> [err |-> <<"unsupported operator: " \o operator>>, met |-> FALSE]

\* variant: a temperature that is missing or not a number counts as zero
executeConditionNodeDefaulting(node, vs, log) ==
    IF ~Has(vs, "condition_operator")
    THEN Outcome(<<"condition operator not found">>, EmptyMap, vs, log, 0)
    ELSE IF ~Has(vs, "condition_threshold")
    THEN Outcome(<<"condition threshold not found">>, EmptyMap, vs, log, 0)
    ELSE IF vs["condition_operator"].k # "string"
    THEN Outcome(<<"condition operator must be a string">>, EmptyMap, vs, log, 0)
    ELSE IF vs["condition_threshold"].k # "float64"
    THEN Outcome(<<"condition threshold must be a number">>, EmptyMap, vs, log, 0)
    ELSE LET operator == vs["condition_operator"].s
             threshold == vs["condition_threshold"].n
             temperature == IF Has(vs, "temperature") /\ vs["temperature"].k = "float64"
                            THEN vs["temperature"].n
                            ELSE 0
             c == evaluateCondition(temperature, operator, threshold)
         IN IF c.err # NoErr
            THEN Outcome(Wrap("condition evaluation failed", c.err), EmptyMap, vs, log, 0)
            ELSE Outcome(NoErr,
                         [conditionMet |-> Bool(c.met), operator |-> Str(operator),
                          threshold |-> Num(threshold), actualValue |-> Num(temperature)],
                         SetVariable(vs, "conditionMet", Bool(c.met)), log, 0)

\* variant: the result is put in the output but not in the variables
executeConditionNodeNotStoring(node, vs, log) ==
    IF ~Has(vs, "condition_operator")
    THEN Outcome(<<"condition operator not found">>, EmptyMap, vs, log, 0)
    ELSE IF ~Has(vs, "condition_threshold")
    THEN Outcome(<<"condition threshold not found">>, EmptyMap, vs, log, 0)
    ELSE IF vs["condition_operator"].k # "string"
    THEN Outcome(<<"condition operator must be a string">>, EmptyMap, vs, log, 0)
    ELSE IF vs["condition_threshold"].k # "float64"
    THEN Outcome(<<"condition threshold must be a number">>, EmptyMap, vs, log, 0)
    ELSE IF ~Has(vs, "temperature")
    THEN Outcome(<<"temperature not found in execution context">>, EmptyMap, vs, log, 0)
    ELSE IF vs["temperature"].k # "float64"
    THEN Outcome(<<"temperature must be a number">>, EmptyMap, vs, log, 0)
    ELSE LET operator == vs["condition_operator"].s
             threshold == vs["condition_threshold"].n
             temperature == vs["temperature"].n
             c == evaluateCondition(temperature, operator, threshold)
         IN IF c.err # NoErr
            THEN Outcome(Wrap("condition evaluation failed", c.err), EmptyMap, vs, log, 0)
            ELSE Outcome(NoErr,
                         [conditionMet |-> Bool(c.met), operator |-> Str(operator),
                          threshold |-> Num(threshold), actualValue |-> Num(temperature)],
                         vs, log, 0)

\* Engine.executeConditionNode
executeConditionNode(node, vs, log) ==
    IF ~Has(vs, "condition_operator")
    THEN Outcome(<<"condition operator not found">>, EmptyMap, vs, log, 0)
    ELSE IF ~Has(vs, "condition_threshold")
    THEN Outcome(<<"condition threshold not found">>, EmptyMap, vs, log, 0)
    ELSE IF vs["condition_operator"].k # "string"
    THEN Outcome(<<"condition operator must be a string">>, EmptyMap, vs, log, 0)
    ELSE IF vs["condition_threshold"].k # "float64"
    THEN Outcome(<<"condition threshold must be a number">>, EmptyMap, vs, log, 0)
    ELSE IF ~Has(vs, "temperature")
    THEN Outcome(<<"temperature not found in execution context">>, EmptyMap, vs, log, 0)
    ELSE IF vs["temperature"].k # "float64"
    THEN Outcome(<<"temperature must be a number">>, EmptyMap, vs, log, 0)
    ELSE LET operator == vs["condition_operator"].s
             threshold == vs["condition_threshold"].n
             temperature == vs["temperature"].n
             c == evaluateCondition(temperature, operator, threshold)
         IN IF c.err # NoErr
            THEN Outcome(Wrap("condition evaluation failed", c.err), EmptyMap, vs, log, 0)
            ELSE Outcome(NoErr,
                         [conditionMet |-> Bool(c.met), operator |-> Str(operator),
                          threshold |-> Num(threshold), actualValue |-> Num(temperature)],
                         SetVariable(vs, "conditionMet", Bool(c.met)), log, 0)

\* variant: the email of a step that fails is captured all the same
executeEmailNodeCapturing(node, vs, log) ==
    IF ~Has(vs, "email")
    THEN Outcome(<<"email field not found in form data">>, EmptyMap, vs, log, 0)
    ELSE IF vs["email"].k # "string"
    THEN Outcome(<<"email field must be a string">>, EmptyMap, vs, log, 0)
    ELSE LET toEmail == vs["email"].s
             name == Lookup(vs, "name")
             subject == "Weather Alert"
             body == [greets |-> IF name.k = "string" THEN <<name.s>> ELSE <<>>,
                      location |-> Lookup(vs, "location"),
                      temperature |-> Lookup(vs, "temperature")]
             sent == SendEmail(log, toEmail, subject, body)
         IN IF sent.err # NoErr
            THEN [Outcome(Wrap("failed to send email", sent.err), EmptyMap, vs,
                          Append(log, [to |-> toEmail, subject |-> subject, body |-> body]), 0)
                     EXCEPT !.sends = 1]
            ELSE [Outcome(NoErr,
                          [to |-> Str(toEmail), from |-> Str("weather-alerts@example.com"),
                           subject |-> Str(subject), deliveryStatus |-> Str("sent"),
                           emailSent |-> Bool(TRUE)],
                          vs, sent.sentEmails, 0)
                     EXCEPT !.sends = 1]

\* Engine.executeEmailNode: the body is kept as the values it is formatted
\* from (greeting with the name only when the name is a string)
executeEmailNode(node, vs, log) ==
    IF ~Has(vs, "email")
    THEN Outcome(<<"email field not found in form data">>, EmptyMap, vs, log, 0)
    ELSE IF vs["email"].k # "string"
    THEN Outcome(<<"email field must be a string">>, EmptyMap, vs, log, 0)
    ELSE LET toEmail == vs["email"].s
             name == Lookup(vs, "name")
             subject == "Weather Alert"
             body == [greets |-> IF name.k = "string" THEN <<name.s>> ELSE <<>>,
                      location |-> Lookup(vs, "location"),
                      temperature |-> Lookup(vs, "temperature")]
             sent == SendEmail(log, toEmail, subject, body)
         IN IF sent.err # NoErr
            THEN [Outcome(Wrap("failed to send email", sent.err), EmptyMap, vs, log, 0)
                     EXCEPT !.sends = 1]
            ELSE [Outcome(NoErr,
                          [to |-> Str(toEmail), from |-> Str("weather-alerts@example.com"),
                           subject |-> Str(subject), deliveryStatus |-> Str("sent"),
                           emailSent |-> Bool(TRUE)],
                          vs, sent.sentEmails, 0)
                     EXCEPT !.sends = 1]

\* Engine.executeEndNode
executeEndNode(node, vs, log) ==
    Outcome(NoErr,
            SetVariable(SetVariable(EmptyMap, "message", Str("Workflow execution finished")),
                        "nodeId", Str(node.id)),
            vs, log, 0)

\* variant: a node of a type the switch does not know is passed over
DispatchSkipping(client, node, formData, vs, log) ==
    CASE node.type = "start" -> executeStartNode(node, vs, log)
      [] node.type = "form" -> executeFormNode(node, formData, vs, log)
      [] node.type = "integration" -> executeIntegrationNode(client, node, formData, vs, log)
      [] node.type = "condition" -> executeConditionNode(node, vs, log)
      [] node.type = "email" -> executeEmailNode(node, vs, log)
      [] node.type = "end" -> executeEndNode(node, vs, log)
      [] OTHER -> Outcome(NoErr, EmptyMap, vs, log, 0)

\* the type switch of Engine.executeNode
Dispatch(client, node, formData, vs, log) ==
    CASE node.type = "start" -> executeStartNode(node, vs, log)
      [] node.type = "form" -> executeFormNode(node, formData, vs, log)
      [] node.type = "integration" -> executeIntegrationNode(client, node, formData, vs, log)
      [] node.type = "condition" -> executeConditionNode(node, vs, log)
      [] node.type = "email" -> executeEmailNode(node, vs, log)
      [] node.type = "end" -> executeEndNode(node, vs, log)
      [] OTHER -> Outcome(<<"unsupported node type: " \o node.type>>, EmptyMap, vs, log, 0)

\* ------------------------------------------------------------ engine: graph

\* nodeMap[id]: the last node of the list with that id, <<>> when none has it
RECURSIVE nodeMapFrom(_, _, _)
nodeMapFrom(nodes, id, i) ==
    IF i = 0 THEN <<>>
    ELSE IF nodes[i].id = id THEN <<nodes[i]>>
    ELSE nodeMapFrom(nodes, id, i - 1)

nodeMap(nodes, id) == nodeMapFrom(nodes, id, Len(nodes))

\* variant: each edge is put in front of the ones already collected
edgeMapPrepending(edges, source) ==
    LET out == SelectSeq(edges, LAMBDA e: e.source = source)
    IN [i \in 1..Len(out) |-> out[Len(out) + 1 - i]]

\* edgeMap[source]: the edges leaving source, in edge-list order
edgeMap(edges, source) == SelectSeq(edges, LAMBDA e: e.source = source)

\* the first node of type start, <<>> when there is none
RECURSIVE findStartFrom(_, _)
findStartFrom(nodes, i) ==
    IF i > Len(nodes) THEN <<>>
    ELSE IF nodes[i].type = "start" THEN <<nodes[i]>>
    ELSE findStartFrom(nodes, i + 1)

\* variant: falls back to the first node of the list when none is a start node
findStartNodeOrFirst(nodes) ==
    IF findStartFrom(nodes, 1) = <<>> /\ Len(nodes) > 0
    THEN <<nodes[1]>>
    ELSE findStartFrom(nodes, 1)

findStartNode(nodes) == findStartFrom(nodes, 1)

\* variant: an edge without a source handle is followed whatever the result
shouldFollowEdgeUntagged(edge, conditionResult) ==
    IF edge.sourceHandle # <<>>
    THEN (edge.sourceHandle[1] = "true" /\ conditionResult)
         \/ (edge.sourceHandle[1] = "false" /\ ~conditionResult)
    ELSE TRUE

\* Engine.shouldFollowEdge; a nil sourceHandle is the empty sequence
shouldFollowEdge(edge, conditionResult) ==
    IF edge.sourceHandle # <<>>
    THEN (edge.sourceHandle[1] = "true" /\ conditionResult)
         \/ (edge.sourceHandle[1] = "false" /\ ~conditionResult)
    ELSE conditionResult

\* ------------------------------------------------------------ workflow validation

\* WorkflowRequest.hasStartNode: exactly one node of type start
hasStartNode(wr) ==
    Cardinality({i \in 1..Len(wr.nodes) : wr.nodes[i].type = "start"}) = 1

\* WorkflowRequest.hasEndNode
hasEndNode(wr) == \E i \in 1..Len(wr.nodes) : wr.nodes[i].type = "end"

\* graph[source] of hasValidPath: the targets of the edges leaving source,
\* in edge-list order
adjacency(edges, source) ==
    LET out == SelectSeq(edges, LAMBDA e: e.source = source)
    IN [i \in 1..Len(out) |-> out[i].target]

\* variant: a neighbour is enqueued whether or not it was visited before
RECURSIVE enqueueNeighborsAgain(_, _, _, _)
enqueueNeighborsAgain(neighbors, i, visited, queue) ==
    IF i > Len(neighbors) THEN [visited |-> visited, queue |-> queue]
    ELSE enqueueNeighborsAgain(neighbors, i + 1, visited \cup {neighbors[i]},
                               Append(queue, neighbors[i]))

\* the inner loop of the search: mark and enqueue the unvisited neighbours
RECURSIVE enqueueNeighbors(_, _, _, _)
enqueueNeighbors(neighbors, i, visited, queue) ==
    IF i > Len(neighbors) THEN [visited |-> visited, queue |-> queue]
    ELSE IF neighbors[i] \notin visited
    THEN enqueueNeighbors(neighbors, i + 1, visited \cup {neighbors[i]},
                          Append(queue, neighbors[i]))
    ELSE enqueueNeighbors(neighbors, i + 1, visited, queue)

\* the breadth-first loop of hasValidPath: the visited set once the queue is empty
RECURSIVE bfs(_, _, _)
bfs(edges, queue, visited) ==
    IF Len(queue) = 0 THEN visited
    ELSE LET current == Head(queue)
             r == enqueueNeighbors(adjacency(edges, current), 1, visited, Tail(queue))
         IN bfs(edges, r.queue, r.visited)

\* WorkflowRequest.hasValidPath
hasValidPath(wr) ==
    LET start == findStartNode(wr.nodes)
        startNodeID == IF start = <<>> THEN "" ELSE start[1].id
        endNodeIDs == {wr.nodes[i].id : i \in {j \in 1..Len(wr.nodes) : wr.nodes[j].type = "end"}}
    IN IF startNodeID = "" THEN FALSE
       ELSE IF endNodeIDs = {} THEN FALSE
       ELSE LET visited == bfs(wr.edges, <<startNodeID>>, {startNodeID})
            IN \A endNodeID \in endNodeIDs : endNodeID \in visited

\* variant: the path rule is evaluated whatever the node rules found
ValidateWorkflowAlwaysPath(wr) ==
    (IF ~hasStartNode(wr)
     THEN <<[field |-> "nodes", message |-> "workflow must have exactly one start node"]>>
     ELSE <<>>)
    \o (IF ~hasEndNode(wr)
        THEN <<[field |-> "nodes", message |-> "workflow must have at least one end node"]>>
        ELSE <<>>)
    \o (IF ~hasValidPath(wr)
        THEN <<[field |-> "edges",
                message |-> "no valid path exists from start node to all end nodes"]>>
        ELSE <<>>)

\* WorkflowRequest.ValidateWorkflow: the list of validation errors
ValidateWorkflow(wr) ==
    (IF ~hasStartNode(wr)
     THEN <<[field |-> "nodes", message |-> "workflow must have exactly one start node"]>>
     ELSE <<>>)
    \o (IF ~hasEndNode(wr)
        THEN <<[field |-> "nodes", message |-> "workflow must have at least one end node"]>>
        ELSE <<>>)
    \o (IF hasStartNode(wr) /\ hasEndNode(wr) /\ ~hasValidPath(wr)
        THEN <<[field |-> "edges",
                message |-> "no valid path exists from start node to all end nodes"]>>
        ELSE <<>>)

\* ------------------------------------------------------------ node data

NodeTypeStart == "start"
NodeTypeForm == "form"
NodeTypeIntegration == "integration"
NodeTypeCondition == "condition"
NodeTypeEmail == "email"
NodeTypeEnd == "end"

ValidNodeTypes ==
    {NodeTypeStart, NodeTypeForm, NodeTypeIntegration, NodeTypeCondition, NodeTypeEmail,
     NodeTypeEnd}

\* a NodeData value: its kind (GetNodeType) and the fields Validate reads;
\* the fields a kind does not have are at their zero value
NodeData(kind, inputFields, apiEndpoint, conditionExpression, subject, body) ==
    [kind |-> kind, inputFields |-> inputFields, apiEndpoint |-> apiEndpoint,
     conditionExpression |-> conditionExpression, subject |-> subject, body |-> body]

\* json.Unmarshal(rawData, &data) for a data struct of the kind: an error for
\* a document that does not decode, else the struct with the fields of its
\* kind taken from the document and every other field left zero
Unmarshal(rawData, kind) ==
    IF ~rawData.wellFormed
    THEN [err |-> <<"json.Unmarshal error">>, data |-> <<>>]
    ELSE [err |-> NoErr,
          data |-> <<NodeData(kind,
                              IF kind = NodeTypeForm THEN rawData.inputFields ELSE <<>>,
                              IF kind = NodeTypeIntegration THEN rawData.apiEndpoint ELSE "",
                              IF kind = NodeTypeCondition
                              THEN rawData.conditionExpression ELSE "",
                              IF kind = NodeTypeEmail THEN rawData.subject ELSE "",
                              IF kind = NodeTypeEmail THEN rawData.body ELSE "")>>]

\* variant: an email needs only one of subject and body
ValidateEitherPart(data) ==
    CASE data.kind = NodeTypeForm ->
            IF Len(data.inputFields) = 0
            THEN <<"form node must have at least one input field">> ELSE NoErr
      [] data.kind = NodeTypeIntegration ->
            IF data.apiEndpoint = ""
            THEN <<"integration node must have an API endpoint">> ELSE NoErr
      [] data.kind = NodeTypeCondition ->
            IF data.conditionExpression = ""
            THEN <<"condition node must have a condition expression">> ELSE NoErr
      [] data.kind = NodeTypeEmail ->
            IF data.subject = "" /\ data.body = ""
            THEN <<"email node must have a subject">> ELSE NoErr
      [] OTHER -> NoErr

\* NodeData.Validate of the six kinds
Validate(data) ==
    CASE data.kind = NodeTypeForm ->
            IF Len(data.inputFields) = 0
            THEN <<"form node must have at least one input field">> ELSE NoErr
      [] data.kind = NodeTypeIntegration ->
            IF data.apiEndpoint = ""
            THEN <<"integration node must have an API endpoint">> ELSE NoErr
      [] data.kind = NodeTypeCondition ->
            IF data.conditionExpression = ""
            THEN <<"condition node must have a condition expression">> ELSE NoErr
      [] data.kind = NodeTypeEmail ->
            IF data.subject = "" THEN <<"email node must have a subject">>
            ELSE IF data.body = "" THEN <<"email node must have a body">>
            ELSE NoErr
      [] OTHER -> NoErr

\* ParseNodeData(nodeType, rawData): the data (nil is <<>>) and the error
ParseNodeData(nodeType, rawData) ==
    IF nodeType \in ValidNodeTypes
    THEN LET r == Unmarshal(rawData, nodeType)
         IN IF r.err # NoErr
            THEN [data |-> <<>>,
                  err |-> Wrap("failed to parse " \o nodeType \o " node data", r.err)]
            ELSE [data |-> r.data, err |-> Validate(r.data[1])]
    ELSE [data |-> <<>>, err |-> <<"unknown node type: " \o nodeType>>]

\* Node.ValidateData, of a node with the type field and the data
ValidateData(type, data) ==
    IF data = <<>> THEN <<"no data to validate">>
    ELSE IF data[1].kind # type
    THEN <<"data type mismatch: expected " \o type \o ", got " \o data[1].kind>>
    ELSE Validate(data[1])

\* ------------------------------------------------------------ inputs

Node(id, type) ==
    [id |-> id, type |-> type, data |-> "", inputFields |-> <<>>, options |-> <<>>,
     apiEndpoint |-> ""]

Edge(source, target, sourceHandle) ==
    [source |-> source, target |-> target, sourceHandle |-> sourceHandle]

SydneyLat == -33868800
MelbourneLat == -37813600

\* the nodes of the workflow of TestEngine_ExecuteWorkflow
StartNode == Node("start", "start")
FormNode ==
    [Node("form", "form") EXCEPT !.data = "json",
                                 !.inputFields = <<"name", "email", "city">>]
WeatherNode ==
    [Node("weather", "integration") EXCEPT
        !.data = "json",
        !.apiEndpoint = "https://api.open-meteo.com/v1/forecast",
        !.options = <<[city |-> "Sydney", lat |-> SydneyLat, lon |-> 151209300],
                      [city |-> "Melbourne", lat |-> MelbourneLat, lon |-> 144963100]>>]
ConditionNode == [Node("condition", "condition") EXCEPT !.data = "json"]
EmailNode == [Node("email", "email") EXCEPT !.data = "json"]
EndNode == Node("end", "end")
\* a node whose type the engine does not know
OtherNode == Node("other", "webhook")

\* API clients: the outcome of a call, by the latitude in its URL
Weather(t) == [kind |-> "weather", temperature |-> t, message |-> ""]
\* MockAPIClient after SetDefaultWeatherResponse
DefaultWeatherClient ==
    [lat \in {SydneyLat, MelbourneLat} |->
        IF lat = SydneyLat THEN Weather(285) ELSE Weather(221)]
\* MockAPIClient after SetAPIError("service unavailable")
FailingClient ==
    [lat \in {SydneyLat, MelbourneLat} |->
        [kind |-> "error", temperature |-> 0,
         message |-> "API error: service unavailable"]]
\* a client whose response carries no current_weather object
MalformedClient ==
    [lat \in {SydneyLat, MelbourneLat} |->
        [kind |-> "malformed", temperature |-> 0, message |-> ""]]

Alice == [name |-> Str("Alice"), email |-> Str("alice@example.com"), city |-> Str("Sydney")]

Condition(operator, threshold) == [operator |-> Str(operator), threshold |-> Num(threshold)]

Request(formData, hasCondition, condition) ==
    [formData |-> formData, hasCondition |-> hasCondition, condition |-> condition]

\* --- the linear workflow of TestEngine_ExecuteWorkflow under varied requests
\* and clients

LinearNodes == <<StartNode, FormNode, WeatherNode, ConditionNode, EmailNode, EndNode>>
LinearEdges ==
    <<Edge("start", "form", <<>>), Edge("form", "weather", <<>>),
      Edge("weather", "condition", <<>>), Edge("condition", "email", <<"true">>),
      Edge("email", "end", <<>>)>>

FormDatas ==
    { Alice,
      [Alice EXCEPT !.city = Str("sydney")],
      [Alice EXCEPT !.city = Str("Melbourne")],
      [Alice EXCEPT !.city = Str("Perth")],
      [Alice EXCEPT !.city = Num(2000)],
      [Alice EXCEPT !.email = Str("not-an-email")],
      [Alice EXCEPT !.name = Str(" ")],
      [Alice EXCEPT !.name = Num(0)],
      [name |-> Str("Alice"), city |-> Str("Sydney")],
      [city |-> Str("Sydney")],
      EmptyMap }

Operators ==
    {"greater_than", "less_than", "equals", "greater_than_or_equal",
     "less_than_or_equal", "not_equals"}

Conditions ==
    {Condition(op, th) : op \in Operators, th \in {250, 285}}
    \cup { [operator |-> Str("greater_than")],
           [threshold |-> Num(250)],
           [operator |-> Num(1), threshold |-> Num(250)],
           [operator |-> Str("greater_than"), threshold |-> Str("25")] }

Requests ==
    {Request(fd, TRUE, c) : fd \in FormDatas, c \in Conditions}
    \cup {Request(fd, FALSE, EmptyMap) : fd \in FormDatas}

LinearInputs ==
    [workflow : {[nodes |-> LinearNodes, edges |-> LinearEdges]},
     req : Requests,
     api : {DefaultWeatherClient, FailingClient, MalformedClient}]

\* --- small workflows of any shape: every edge list of up to MaxEdges edges
\* drawn from a pool, over node lists with and without a start or an end node

GraphNodes == <<StartNode, WeatherNode, ConditionNode, EndNode, OtherNode>>

Without(nodes, id) == SelectSeq(nodes, LAMBDA n: n.id # id)

NodeLists == {GraphNodes, Without(GraphNodes, "start"), Without(GraphNodes, "end")}

\* sourceHandle values: nil, the two branch tags, and a tag that is neither
Handles == {<<>>, <<"true">>, <<"false">>, <<"maybe">>}

\* the edges between distinct nodes of GraphNodes that can matter to a run:
\* none leaves the node of unknown type (its step always fails), none enters
\* the start node, and a source handle is varied on the edges from the
\* condition node to the end node
EdgePool ==
    { Edge(s, t, h) :
        s \in {"start", "weather", "condition", "end"},
        t \in {"weather", "condition", "end", "other"},
        h \in Handles } \
    { e \in [source : {"start", "weather", "condition", "end"},
             target : {"weather", "condition", "end", "other"},
             sourceHandle : Handles] :
        \/ e.source = e.target
        \/ (e.sourceHandle # <<>> /\ ~(e.source = "condition" /\ e.target = "end")) }

EdgeLists == UNION {[1..n -> EdgePool] : n \in 0..MaxEdges}

GraphInputs ==
    [workflow : [nodes : NodeLists, edges : EdgeLists],
     req : {Request(Alice, TRUE, Condition(op, 250)) : op \in {"greater_than", "less_than"}},
     api : {DefaultWeatherClient}]

Inputs == LinearInputs \cup GraphInputs

\* ------------------------------------------------------------ engine: run

\* one activation of the edge loop of continueToNextNodes / executeNextNodes
\* (step: the position in the trace of the visit the loop belongs to)
Frame(node, edges, conditionResult, step) ==
    [node |-> node, edges |-> edges, next |-> 1, conditionResult |-> conditionResult,
     step |-> step]

NoResponse == [status |-> "", steps |-> <<>>, error |-> NoErr]

Init ==
    /\ \E in \in Inputs :
          /\ workflow = in.workflow
          /\ req = in.req
          /\ api = in.api
    /\ pc = "ready"
    /\ cur = <<>>
    /\ stack = <<>>
    /\ variables = EmptyMap
    /\ steps = <<>>
    /\ response = NoResponse
    /\ returnedErr = NoErr
    /\ sentEmails = <<>>
    /\ sendAttempts = 0
    /\ apiCalls = 0
    /\ earlier = <<>>
    /\ inflight = <<>>
    /\ probe = <<>>

\* variant: the keys are stored as they come, without the prefix
ConditionVariablesUnprefixed(condition) == condition

\* condition_<key> for every key of the request's condition map
ConditionVariables(condition) ==
    [x \in {"condition_" \o k : k \in DOMAIN condition} |->
        condition[CHOOSE k \in DOMAIN condition : "condition_" \o k = x]]

\* variant: the failure is recorded but the loops still pending carry on
\* with their remaining edges
FailKeepsGoing(err, trace) ==
    /\ response' = [status |-> "failed", steps |-> trace, error |-> err]
    /\ returnedErr' = NoErr
    /\ pc' = IF stack = <<>> THEN "done" ELSE "nextNodes"
    /\ cur' = <<>>
    /\ stack' = stack

\* variant: ExecuteWorkflow hands the error of executeNode on to its caller
FailReturningError(err, trace) ==
    /\ response' = NoResponse
    /\ returnedErr' = err
    /\ pc' = "done"
    /\ cur' = <<>>
    /\ stack' = <<>>

\* an error return reaches ExecuteWorkflow through every pending activation;
\* ExecuteWorkflow puts its message in the response and returns a nil error
Fail(err, trace) ==
    /\ response' = [status |-> "failed", steps |-> trace, error |-> err]
    /\ returnedErr' = NoErr
    /\ pc' = "done"
    /\ cur' = <<>>
    /\ stack' = <<>>

\* Engine.ExecuteWorkflow up to the first executeNode call
ExecuteWorkflow ==
    /\ pc = "ready"
    /\ variables' = IF req.hasCondition
                    THEN CopyInto(variables, ConditionVariables(req.condition))
                    ELSE variables
    /\ LET startNode == findStartNode(workflow.nodes)
       IN IF startNode = <<>>
          THEN Fail(<<"no start node found">>, steps)
          ELSE /\ cur' = startNode
               /\ pc' = "executeNode"
               /\ UNCHANGED <<stack, response, returnedErr>>
    /\ UNCHANGED <<workflow, req, api, steps, sentEmails, sendAttempts, apiCalls, earlier,
                   inflight, probe>>

\* Engine.executeNode on the node in cur: dispatch, append the step, and on
\* success enter continueToNextNodes, which for a condition node reads the
\* condition result once, before its edge loop. A step's label, description
\* and duration, and the timestamps, message ids and raw API payload of the
\* outputs are left out: nothing in the run reads them.
ExecuteNode ==
    /\ pc = "executeNode"
    /\ Len(steps) < MaxSteps
    /\ LET node == cur[1]
           out == Dispatch(api, node, req.formData, variables, sentEmails)
           step == [nodeId |-> node.id, type |-> node.type,
                    status |-> IF out.err # NoErr THEN "failed" ELSE "completed",
                    error |-> out.err,
                    output |-> out.output]
           trace == Append(steps, step)
           edges == edgeMap(workflow.edges, node.id)
       IN /\ steps' = trace
          /\ variables' = out.variables
          /\ sentEmails' = out.sentEmails
          /\ apiCalls' = apiCalls + out.calls
          /\ sendAttempts' = sendAttempts + out.sends
          /\ IF out.err # NoErr THEN Fail(out.err, trace)
             ELSE IF node.type # "condition"
             THEN /\ stack' = <<Frame(node, edges, FALSE, Len(trace))>> \o stack
                  /\ pc' = "nextNodes"
                  /\ cur' = <<>>
                  /\ UNCHANGED <<response, returnedErr>>
             ELSE IF ~Has(out.variables, "conditionMet")
             THEN Fail(<<"condition result not found in context">>, trace)
             ELSE IF out.variables["conditionMet"].k # "bool"
             THEN Fail(<<"condition result must be boolean">>, trace)
             ELSE /\ stack' = <<Frame(node, edges, out.variables["conditionMet"].b,
                                       Len(trace))>> \o stack
                  /\ pc' = "nextNodes"
                  /\ cur' = <<>>
                  /\ UNCHANGED <<response, returnedErr>>
    /\ UNCHANGED <<workflow, req, api, earlier, inflight, probe>>

\* the edge the innermost loop is at
TopEdge == stack[1].edges[stack[1].next]
Advance == <<[stack[1] EXCEPT !.next = @ + 1]>> \o Tail(stack)
InLoop == pc = "nextNodes" /\ stack # <<>> /\ stack[1].next <= Len(stack[1].edges)

\* variant: a target that already has a step in the trace is not executed again
FollowEdgeOnce ==
    /\ InLoop
    /\ stack[1].node.type = "condition" => shouldFollowEdge(TopEdge, stack[1].conditionResult)
    /\ LET nextNode == nodeMap(workflow.nodes, TopEdge.target)
       IN IF nextNode = <<>>
          THEN Fail(<<"next node not found: " \o TopEdge.target>>, steps)
          ELSE IF \E i \in 1..Len(steps) : steps[i].nodeId = TopEdge.target
          THEN /\ stack' = Advance
               /\ UNCHANGED <<cur, pc, response, returnedErr>>
          ELSE /\ cur' = nextNode
               /\ pc' = "executeNode"
               /\ stack' = Advance
               /\ UNCHANGED <<response, returnedErr>>
    /\ UNCHANGED <<workflow, req, api, variables, steps, sentEmails, sendAttempts, apiCalls,
                   earlier, inflight, probe>>

\* one iteration of the loop that follows the edge: look the target up and
\* call executeNode on it, or return "next node not found"
FollowEdge ==
    /\ InLoop
    /\ stack[1].node.type = "condition" => shouldFollowEdge(TopEdge, stack[1].conditionResult)
    /\ LET nextNode == nodeMap(workflow.nodes, TopEdge.target)
       IN IF nextNode = <<>>
          THEN Fail(<<"next node not found: " \o TopEdge.target>>, steps)
          ELSE /\ cur' = nextNode
               /\ pc' = "executeNode"
               /\ stack' = Advance
               /\ UNCHANGED <<response, returnedErr>>
    /\ UNCHANGED <<workflow, req, api, variables, steps, sentEmails, sendAttempts, apiCalls,
                   earlier, inflight, probe>>

\* variant: the condition result is read from the variables again at the edge
SkipEdgeRereading ==
    /\ InLoop
    /\ stack[1].node.type = "condition"
    /\ ~shouldFollowEdge(TopEdge, Lookup(variables, "conditionMet").b)
    /\ stack' = Advance
    /\ UNCHANGED <<workflow, req, api, pc, cur, variables, steps, response, returnedErr,
                   sentEmails, sendAttempts, apiCalls, earlier, inflight, probe>>

\* one iteration of a condition node's loop over an edge it does not follow
SkipEdge ==
    /\ InLoop
    /\ stack[1].node.type = "condition"
    /\ ~shouldFollowEdge(TopEdge, stack[1].conditionResult)
    /\ stack' = Advance
    /\ UNCHANGED <<workflow, req, api, pc, cur, variables, steps, response, returnedErr,
                   sentEmails, sendAttempts, apiCalls, earlier, inflight, probe>>

\* the loop is over: executeNode returns nil to the loop that called it, and
\* the outermost return completes ExecuteWorkflow
Return ==
    /\ pc = "nextNodes"
    /\ stack # <<>>
    /\ stack[1].next > Len(stack[1].edges)
    /\ stack' = Tail(stack)
    /\ IF Tail(stack) = <<>>
       THEN /\ response' = [status |-> "completed", steps |-> steps, error |-> NoErr]
            /\ returnedErr' = NoErr
            /\ pc' = "done"
       ELSE UNCHANGED <<response, returnedErr, pc>>
    /\ UNCHANGED <<workflow, req, api, cur, variables, steps, sentEmails, sendAttempts,
                   apiCalls, earlier, inflight, probe>>

Next == ExecuteWorkflow \/ ExecuteNode \/ FollowEdge \/ SkipEdge \/ Return

Spec == Init /\ [][Next]_vars

\* ------------------------------------------------------------ runs whose form fields bear the engine's names

\* a form node without declared input fields: nothing is validated
FreeFormNode == Node("form", "form")

\* a second integration node, whose option for Sydney has the coordinates the
\* client answers 22.1 degrees for, and a second condition node
Weather2Node ==
    [WeatherNode EXCEPT
        !.id = "weather2",
        !.options = <<[city |-> "Sydney", lat |-> MelbourneLat, lon |-> 144963100]>>]
Condition2Node == [ConditionNode EXCEPT !.id = "condition2"]

\* the form node before the condition node
FormFirst ==
    [nodes |-> <<StartNode, FreeFormNode, ConditionNode, EmailNode, EndNode>>,
     edges |-> <<Edge("start", "form", <<>>), Edge("form", "condition", <<>>),
                 Edge("condition", "email", <<"true">>),
                 Edge("condition", "end", <<"false">>)>>]

\* the form node in the subtree of the first edge of the condition node
FormLast ==
    [nodes |-> <<StartNode, WeatherNode, ConditionNode, FreeFormNode, EmailNode, EndNode>>,
     edges |-> <<Edge("start", "weather", <<>>), Edge("weather", "condition", <<>>),
                 Edge("condition", "form", <<"true">>),
                 Edge("condition", "email", <<"true">>),
                 Edge("condition", "end", <<"false">>)>>]

\* a second integration node and a second condition node in the subtree of
\* the first edge of the condition node
TwoConditions ==
    [nodes |-> <<StartNode, WeatherNode, ConditionNode, Weather2Node, Condition2Node,
                 EmailNode, EndNode>>,
     edges |-> <<Edge("start", "weather", <<>>), Edge("weather", "condition", <<>>),
                 Edge("condition", "weather2", <<"true">>),
                 Edge("weather2", "condition2", <<>>),
                 Edge("condition", "email", <<"true">>),
                 Edge("condition", "end", <<"false">>)>>]

\* a node of unknown type with an outgoing edge, reached while another edge
\* of the start node is still to come
UnknownMiddle ==
    [nodes |-> <<StartNode, OtherNode, EndNode>>,
     edges |-> <<Edge("start", "other", <<>>), Edge("other", "end", <<>>),
                 Edge("start", "end", <<>>)>>]

\* two email nodes one after the other, and then a node of unknown type
Email2Node == [EmailNode EXCEPT !.id = "email2"]
TwoEmails ==
    [nodes |-> <<StartNode, FreeFormNode, EmailNode, Email2Node, OtherNode>>,
     edges |-> <<Edge("start", "form", <<>>), Edge("form", "email", <<>>),
                 Edge("email", "email2", <<>>), Edge("email2", "other", <<>>)>>]

\* form fields named like the variables the engine and its nodes write, and
\* an email field that is empty
EngineNamedFields ==
    { EmptyMap,
      [email |-> Str("")],
      [temperature |-> Str("hot")],
      [temperature |-> Num(100)],
      [condition_operator |-> Str("less_than")],
      [condition_operator |-> Num(1)],
      [condition_threshold |-> Num(300)],
      [condition_threshold |-> Str("25")],
      [conditionMet |-> Str("yes")],
      [conditionMet |-> Bool(FALSE)],
      [location |-> Str("Mars")],
      [conditionMet |-> Str("yes"), temperature |-> Num(300)],
      [temperature |-> Num(300), condition_operator |-> Str("greater_than"),
       condition_threshold |-> Num(250)] }

OverlapInputs ==
    [workflow : {FormFirst, FormLast, TwoConditions, UnknownMiddle, TwoEmails},
     req : {Request(CopyInto(Alice, extra), TRUE, c) :
                extra \in EngineNamedFields,
                c \in {Condition("greater_than", 250), Condition("less_than", 250),
                       [operator |-> Str("greater_than")]}}
           \cup {Request(CopyInto(Alice, extra), FALSE, EmptyMap) :
                    extra \in EngineNamedFields},
     api : {DefaultWeatherClient, FailingClient}]

InitOverlap ==
    /\ \E in \in OverlapInputs :
          /\ workflow = in.workflow
          /\ req = in.req
          /\ api = in.api
    /\ pc = "ready"
    /\ cur = <<>>
    /\ stack = <<>>
    /\ variables = EmptyMap
    /\ steps = <<>>
    /\ response = NoResponse
    /\ returnedErr = NoErr
    /\ sentEmails = <<>>
    /\ sendAttempts = 0
    /\ apiCalls = 0
    /\ earlier = <<>>
    /\ inflight = <<>>
    /\ probe = <<>>

SpecOverlap == InitOverlap /\ [][Next]_vars

\* ------------------------------------------------------------ a second run

\* variant: the second run goes on in the context of the first
RerunKeepingContext ==
    /\ pc = "done"
    /\ earlier = <<>>
    /\ earlier' = Append(earlier, response)
    /\ pc' = "ready"
    /\ cur' = <<>>
    /\ stack' = <<>>
    /\ response' = NoResponse
    /\ returnedErr' = NoErr
    /\ UNCHANGED <<workflow, req, api, variables, steps, sentEmails, sendAttempts, apiCalls,
                   inflight, probe>>

\* the caller invokes ExecuteWorkflow once more on the same engine with the
\* same workflow and request: the run gets a context of its own, while the
\* email service and the API client are the ones the first run used
Rerun ==
    /\ pc = "done"
    /\ earlier = <<>>
    /\ earlier' = Append(earlier, response)
    /\ pc' = "ready"
    /\ cur' = <<>>
    /\ stack' = <<>>
    /\ variables' = EmptyMap
    /\ steps' = <<>>
    /\ response' = NoResponse
    /\ returnedErr' = NoErr
    /\ UNCHANGED <<workflow, req, api, sentEmails, sendAttempts, apiCalls, inflight, probe>>

NextRerun == Next \/ Rerun

SpecRerun == Init /\ [][NextRerun]_vars

\* ------------------------------------------------------------ concurrent runs

\* the form submissions of the runs that reach their email node at the same
\* time: two valid ones, one without an email field, one with an empty address
SenderForms ==
    { Alice,
      [name |-> Str("Bob"), email |-> Str("bob@example.com"), city |-> Str("Melbourne")],
      [name |-> Str("Alice"), city |-> Str("Sydney")],
      [Alice EXCEPT !.email = Str("")] }

\* a run on a goroutine of its own that has come to its email node: its
\* context holds what its form and integration nodes stored
Sender(formData) ==
    [pc |-> "email",
     variables |-> SetVariable(SetVariable(CopyInto(EmptyMap, formData),
                                           "temperature", Num(285)),
                               "location", Str("Sydney")),
     local |-> <<>>,
     out |-> <<>>]

InitConcurrent ==
    /\ workflow = [nodes |-> LinearNodes, edges |-> LinearEdges]
    /\ req = Request(EmptyMap, FALSE, EmptyMap)
    /\ api = DefaultWeatherClient
    /\ pc = "idle"
    /\ cur = <<>>
    /\ stack = <<>>
    /\ variables = EmptyMap
    /\ steps = <<>>
    /\ response = NoResponse
    /\ returnedErr = NoErr
    /\ sentEmails = <<>>
    /\ sendAttempts = 0
    /\ apiCalls = 0
    /\ earlier = <<>>
    /\ probe = <<>>
    /\ inflight \in [1..NumRuns -> {Sender(fd) : fd \in SenderForms}]

\* run r executes its email node up to the point where SendEmail, inside
\* append, has read the slice of the service; the service takes no lock. A
\* send that fails before that returns without touching the slice.
BeginSend(r) ==
    /\ inflight[r].pc = "email"
    /\ LET out == executeEmailNode(EmailNode, inflight[r].variables, sentEmails)
       IN /\ sendAttempts' = sendAttempts + out.sends
          /\ IF out.err # NoErr
             THEN inflight' = [inflight EXCEPT ![r].pc = "done", ![r].out = <<out>>]
             ELSE inflight' = [inflight EXCEPT ![r].pc = "append", ![r].local = sentEmails]
    /\ UNCHANGED <<workflow, req, api, pc, cur, stack, variables, steps, response,
                   returnedErr, sentEmails, apiCalls, earlier, probe>>

\* run r stores the slice it read, with its payload appended, back into the
\* service, and its email node returns
StoreSend(r) ==
    /\ inflight[r].pc = "append"
    /\ LET out == executeEmailNode(EmailNode, inflight[r].variables, inflight[r].local)
       IN /\ sentEmails' = out.sentEmails
          /\ inflight' = [inflight EXCEPT ![r].pc = "done", ![r].out = <<out>>]
    /\ UNCHANGED <<workflow, req, api, pc, cur, stack, variables, steps, response,
                   returnedErr, sendAttempts, apiCalls, earlier, probe>>

NextConcurrent == \E r \in 1..NumRuns : BeginSend(r) \/ StoreSend(r)

SpecConcurrent == InitConcurrent /\ [][NextConcurrent]_vars

\* ------------------------------------------------------------ condition node alone

\* the engine at rest, for the specifications that apply one function
Idle ==
    /\ workflow = [nodes |-> <<>>, edges |-> <<>>]
    /\ req = Request(EmptyMap, FALSE, EmptyMap)
    /\ api = DefaultWeatherClient
    /\ pc = "idle"
    /\ cur = <<>>
    /\ stack = <<>>
    /\ variables = EmptyMap
    /\ steps = <<>>
    /\ response = NoResponse
    /\ returnedErr = NoErr
    /\ sentEmails = <<>>
    /\ sendAttempts = 0
    /\ apiCalls = 0
    /\ earlier = <<>>
    /\ inflight = <<>>

InitCondition ==
    /\ Idle
    /\ \E t \in -MaxTemp..MaxTemp, th \in -MaxTemp..MaxTemp, op \in Operators :
          probe = [temperature |-> t, operator |-> op, threshold |-> th, out |-> <<>>]

\* Engine.executeConditionNode on a context that holds the request's
\* condition and a temperature
EvalCondition ==
    /\ probe.out = <<>>
    /\ LET vs == SetVariable(
                    ConditionVariables(Condition(probe.operator, probe.threshold)),
                    "temperature", Num(probe.temperature))
       IN probe' = [probe EXCEPT !.out = <<executeConditionNode(ConditionNode, vs, <<>>)>>]
    /\ UNCHANGED <<workflow, req, api, pc, cur, stack, variables, steps, response,
                   returnedErr, sentEmails, sendAttempts, apiCalls, earlier, inflight>>

NextCondition == EvalCondition

SpecCondition == InitCondition /\ [][NextCondition]_vars

\* ------------------------------------------------------------ integration service alone

\* location options: the two cities of the tests, and one whose name is the
\* first one's in other letter case, at the other coordinates
OptionPool ==
    { [city |-> "Sydney", lat |-> SydneyLat, lon |-> 151209300],
      [city |-> "Melbourne", lat |-> MelbourneLat, lon |-> 144963100],
      [city |-> "SYDNEY", lat |-> MelbourneLat, lon |-> 144963100] }

OptionLists == UNION {[1..n -> OptionPool] : n \in 0..MaxOptions}

\* the input variables handed to ExecuteIntegration
CityInputs ==
    {[city |-> Str(c)] : c \in {"Sydney", "sydney", "SYDNEY", "Melbourne", "melbourne",
                                "Perth", ""}}
    \cup {[city |-> Num(2000)], EmptyMap, [name |-> Str("Alice")]}

InitIntegration ==
    /\ Idle
    /\ \E options \in OptionLists, data \in {"json", ""}, in \in CityInputs,
          client \in {DefaultWeatherClient, FailingClient, MalformedClient} :
          probe = [node |-> [WeatherNode EXCEPT !.options = options, !.data = data],
                   inputVariables |-> in,
                   client |-> client,
                   out |-> <<>>,
                   step |-> <<>>]

\* IntegrationService.ExecuteIntegration on the node data and input
\* variables, and Engine.executeIntegrationNode of a run whose form data are
\* those input variables
CallIntegration ==
    /\ probe.out = <<>>
    /\ probe' = [probe EXCEPT
          !.out = <<ExecuteIntegration(probe.client, probe.node, probe.inputVariables)>>,
          !.step = <<executeIntegrationNode(probe.client, probe.node, probe.inputVariables,
                                            EmptyMap, <<>>)>>]
    /\ UNCHANGED <<workflow, req, api, pc, cur, stack, variables, steps, response,
                   returnedErr, sentEmails, sendAttempts, apiCalls, earlier, inflight>>

NextIntegration == CallIntegration

SpecIntegration == InitIntegration /\ [][NextIntegration]_vars

\* ------------------------------------------------------------ email service alone

\* records the service may hold from earlier sends
PayloadPool ==
    { [to |-> "alice@example.com", subject |-> "Weather Alert", body |-> "sunny"],
      [to |-> "bob@example.com", subject |-> "Weather Alert", body |-> ""] }

Logs == UNION {[1..n -> PayloadPool] : n \in 0..MaxLog}

InitEmail ==
    /\ workflow = [nodes |-> <<>>, edges |-> <<>>]
    /\ req = Request(EmptyMap, FALSE, EmptyMap)
    /\ api = DefaultWeatherClient
    /\ pc = "idle"
    /\ cur = <<>>
    /\ stack = <<>>
    /\ variables = EmptyMap
    /\ steps = <<>>
    /\ response = NoResponse
    /\ returnedErr = NoErr
    /\ sendAttempts = 0
    /\ apiCalls = 0
    /\ earlier = <<>>
    /\ inflight = <<>>
    /\ sentEmails \in Logs
    /\ \E to \in {"", "alice@example.com", "bob@example.com"},
          subject \in {"", "Weather Alert"}, body \in {"", "sunny"} :
          probe = [log |-> sentEmails, to |-> to, subject |-> subject, body |-> body,
                   out |-> <<>>]

\* InMemoryEmailService.SendEmail(to, subject, body) on the service's log
CallSendEmail ==
    /\ probe.out = <<>>
    /\ LET sent == SendEmail(sentEmails, probe.to, probe.subject, probe.body)
       IN /\ sentEmails' = sent.sentEmails
          /\ probe' = [probe EXCEPT !.out = <<sent.err>>]
    /\ sendAttempts' = sendAttempts + 1
    /\ UNCHANGED <<workflow, req, api, pc, cur, stack, variables, steps, response,
                   returnedErr, apiCalls, earlier, inflight>>

NextEmail == CallSendEmail

SpecEmail == InitEmail /\ [][NextEmail]_vars

\* ------------------------------------------------------------ validator alone

FieldNames == {"name", "email", "city"}

FieldLists == UNION {[1..n -> FieldNames] : n \in 0..MaxFields}

\* a name, an address, the empty and a blank string, nil, and the number zero
FieldValues == {Str("Alice"), Str("alice@example.com"), Str(""), Str(" "), Nil, Num(0)}

\* submissions over the field names, with and without a field that no node
\* declares
Submissions ==
    LET known == UNION {[names -> FieldValues] : names \in SUBSET FieldNames}
    IN known \cup {SetVariable(fd, "phone", Nil) : fd \in known}

\* the *FormNodeData argument: nil, or data declaring a list of input fields
FormNodeDatas == {<<>>} \cup {<<[inputFields |-> fields]>> : fields \in FieldLists}

\* nodeData.Metadata.InputFields, none when nodeData is nil
DeclaredFields(nodeData) == IF nodeData = <<>> THEN <<>> ELSE nodeData[1].inputFields

InitValidator ==
    /\ Idle
    /\ \E formData \in Submissions, nodeData \in FormNodeDatas :
          probe = [formData |-> formData, nodeData |-> nodeData, out |-> <<>>]

\* DefaultInputValidator.ValidateFormData(formData, nodeData)
CallValidateFormData ==
    /\ probe.out = <<>>
    /\ probe' = [probe EXCEPT
          !.out = <<ValidateFormData(probe.formData, DeclaredFields(probe.nodeData))>>]
    /\ UNCHANGED <<workflow, req, api, pc, cur, stack, variables, steps, response,
                   returnedErr, sentEmails, sendAttempts, apiCalls, earlier, inflight>>

NextValidator == CallValidateFormData

SpecValidator == InitValidator /\ [][NextValidator]_vars

\* ------------------------------------------------------------ workflow validation alone

\* nodes of the workflow requests: two start nodes, one of them with the
\* empty string for id, a form node and two end nodes
PathNodes ==
    <<Node("s", "start"), Node("", "start"), Node("m", "form"), Node("e", "end"),
      Node("e2", "end")>>

\* every sub-list of a list, in its order
RECURSIVE SubLists(_)
SubLists(list) ==
    IF list = <<>> THEN {<<>>}
    ELSE LET rest == SubLists(Tail(list))
         IN rest \cup {<<Head(list)>> \o r : r \in rest}

\* edges of the workflow requests: forward edges, the loops m -> m and
\* m -> s, and an edge between the end nodes
PathEdgePool ==
    { Edge("s", "m", <<>>), Edge("s", "e", <<>>), Edge("s", "e2", <<>>),
      Edge("m", "e", <<>>), Edge("m", "e2", <<>>), Edge("m", "s", <<>>),
      Edge("m", "m", <<>>), Edge("e", "e2", <<>>), Edge("", "e", <<>>),
      Edge("", "m", <<>>) }

WorkflowRequests ==
    [nodes : SubLists(PathNodes),
     edges : UNION {[1..n -> PathEdgePool] : n \in 0..MaxEdges}]

InitValidateWorkflow ==
    /\ Idle
    /\ \E wr \in WorkflowRequests : probe = [wr |-> wr, called |-> FALSE, errors |-> <<>>]

\* WorkflowRequest.ValidateWorkflow()
CallValidateWorkflow ==
    /\ ~probe.called
    /\ probe' = [probe EXCEPT !.called = TRUE, !.errors = ValidateWorkflow(probe.wr)]
    /\ UNCHANGED <<workflow, req, api, pc, cur, stack, variables, steps, response,
                   returnedErr, sentEmails, sendAttempts, apiCalls, earlier, inflight>>

NextValidateWorkflow == CallValidateWorkflow

SpecValidateWorkflow == InitValidateWorkflow /\ [][NextValidateWorkflow]_vars

\* ------------------------------------------------------------ the path search, step by step

\* hasValidPath run one loop iteration at a time; enqueued is the history of
\* the ids put on the queue
InitPath ==
    /\ Idle
    /\ \E wr \in WorkflowRequests :
          probe = [wr |-> wr, at |-> "call", queue |-> <<>>, visited |-> {},
                   enqueued |-> <<>>, result |-> FALSE]

\* hasValidPath up to the loop: the start node id, the end node ids, the
\* queue holding the start node
BeginPath ==
    /\ probe.at = "call"
    /\ LET start == findStartNode(probe.wr.nodes)
           startNodeID == IF start = <<>> THEN "" ELSE start[1].id
       IN IF startNodeID = "" \/ ~hasEndNode(probe.wr)
          THEN probe' = [probe EXCEPT !.at = "done", !.result = FALSE]
          ELSE probe' = [probe EXCEPT !.at = "loop", !.queue = <<startNodeID>>,
                                      !.visited = {startNodeID},
                                      !.enqueued = <<startNodeID>>]
    /\ UNCHANGED <<workflow, req, api, pc, cur, stack, variables, steps, response,
                   returnedErr, sentEmails, sendAttempts, apiCalls, earlier, inflight>>

\* one iteration of the loop: take the head of the queue, enqueue its
\* unvisited neighbours
VisitNode ==
    /\ probe.at = "loop"
    /\ Len(probe.queue) > 0
    /\ Len(probe.enqueued) <= MaxQueued
    /\ LET current == Head(probe.queue)
           r == enqueueNeighbors(adjacency(probe.wr.edges, current), 1, probe.visited,
                                 Tail(probe.queue))
       IN probe' = [probe EXCEPT !.queue = r.queue, !.visited = r.visited,
                                 !.enqueued = probe.enqueued
                                     \o SubSeq(r.queue, Len(probe.queue), Len(r.queue))]
    /\ UNCHANGED <<workflow, req, api, pc, cur, stack, variables, steps, response,
                   returnedErr, sentEmails, sendAttempts, apiCalls, earlier, inflight>>

\* the queue is empty: every end node must have been visited
FinishPath ==
    /\ probe.at = "loop"
    /\ Len(probe.queue) = 0
    /\ probe' = [probe EXCEPT
                   !.at = "done",
                   !.result = \A i \in 1..Len(probe.wr.nodes) :
                                  probe.wr.nodes[i].type = "end"
                                      => probe.wr.nodes[i].id \in probe.visited]
    /\ UNCHANGED <<workflow, req, api, pc, cur, stack, variables, steps, response,
                   returnedErr, sentEmails, sendAttempts, apiCalls, earlier, inflight>>

NextPath == BeginPath \/ VisitNode \/ FinishPath

SpecPath == InitPath /\ [][NextPath]_vars

\* the loop runs as long as it can
SpecPathFair == SpecPath /\ WF_vars(NextPath)

\* ------------------------------------------------------------ node data alone

\* type strings: the six known ones, one the engine does not know, and none
TypeStrings == ValidNodeTypes \cup {"webhook", ""}

\* JSON documents: one that does not decode, and those with each of the
\* required fields present or absent
RawDatas ==
    [wellFormed : BOOLEAN,
     inputFields : {<<>>, <<"name">>},
     apiEndpoint : {"", "https://api.open-meteo.com/v1/forecast"},
     conditionExpression : {"", "temperature > threshold"},
     subject : {"", "Weather Alert"},
     body : {"", "Weather alert for {{city}}"}]

\* a document is parsed as nodeType, and the data that comes out is put in
\* a node whose type field is type
InitNodeData ==
    /\ Idle
    /\ \E nodeType \in TypeStrings, rawData \in RawDatas, type \in TypeStrings :
          probe = [nodeType |-> nodeType, rawData |-> rawData, type |-> type,
                   at |-> "parse", data |-> <<>>, err |-> NoErr, dataErr |-> NoErr]

CallParseNodeData ==
    /\ probe.at = "parse"
    /\ LET r == ParseNodeData(probe.nodeType, probe.rawData)
       IN probe' = [probe EXCEPT !.at = "validate", !.data = r.data, !.err = r.err]
    /\ UNCHANGED <<workflow, req, api, pc, cur, stack, variables, steps, response,
                   returnedErr, sentEmails, sendAttempts, apiCalls, earlier, inflight>>

CallValidateData ==
    /\ probe.at = "validate"
    /\ probe' = [probe EXCEPT !.at = "done",
                              !.dataErr = ValidateData(probe.type, probe.data)]
    /\ UNCHANGED <<workflow, req, api, pc, cur, stack, variables, steps, response,
                   returnedErr, sentEmails, sendAttempts, apiCalls, earlier, inflight>>

NextNodeData == CallParseNodeData \/ CallValidateData

SpecNodeData == InitNodeData /\ [][NextNodeData]_vars

\* ------------------------------------------------------------ the repository: SaveWorkflow

\* The database is its three tables: workflows maps an id to a name, nodes
\* and edges are sets of rows that carry their workflow_id. A transaction
\* works on a copy of the tables that replaces them at commit. A statement
\* fails for whatever reason the database has (a constraint, the connection):
\* which one fails is left open. The foreign keys and their cascades are not
\* part of the tables here.

NodeRow(node, workflowID) == [id |-> node.id, type |-> node.type, workflow_id |-> workflowID]
EdgeRow(edge, workflowID) ==
    [id |-> edge.id, source |-> edge.source, target |-> edge.target,
     workflow_id |-> workflowID]

\* INSERT INTO workflows ... ON CONFLICT (id) DO UPDATE SET name
UpsertWorkflow(t, workflowArg) ==
    [t EXCEPT !.workflows =
        [x \in DOMAIN t.workflows \cup {workflowArg.id} |->
            IF x = workflowArg.id THEN workflowArg.name ELSE t.workflows[x]]]

\* DELETE FROM edges WHERE workflow_id = id
DeleteEdges(t, id) == [t EXCEPT !.edges = {e \in t.edges : e.workflow_id # id}]

\* DELETE FROM nodes WHERE workflow_id = id
DeleteNodes(t, id) == [t EXCEPT !.nodes = {n \in t.nodes : n.workflow_id # id}]

\* the batch INSERT INTO nodes
InsertNodes(t, id, nodes) ==
    [t EXCEPT !.nodes = t.nodes \cup {NodeRow(nodes[i], id) : i \in 1..Len(nodes)}]

\* the batch INSERT INTO edges
InsertEdges(t, id, edges) ==
    [t EXCEPT !.edges = t.edges \cup {EdgeRow(edges[i], id) : i \in 1..Len(edges)}]

\* variant: what the statements did so far stays in the tables
RollbackKeeping(tables, t) == t

\* tx.Rollback(): the tables are the ones before the transaction
Rollback(tables, t) == tables

\* the seeded tables: workflow w1 with two nodes and an edge, workflow w2
\* with two nodes and an edge
SeededTables ==
    [workflows |-> [x \in {"w1", "w2"} |-> IF x = "w1" THEN "Weather" ELSE "Other"],
     nodes |-> {[id |-> "start", type |-> "start", workflow_id |-> "w1"],
                [id |-> "end", type |-> "end", workflow_id |-> "w1"],
                [id |-> "s2", type |-> "start", workflow_id |-> "w2"],
                [id |-> "e2", type |-> "end", workflow_id |-> "w2"]},
     edges |-> {[id |-> "e1", source |-> "start", target |-> "end", workflow_id |-> "w1"],
                [id |-> "x1", source |-> "s2", target |-> "e2", workflow_id |-> "w2"]}]

\* arguments of SaveWorkflow: a stored or a new workflow under its old or a
\* new name, node lists (one with a node whose Data is nil), edge lists
SaveArgs ==
    [workflow : [id : {"w1", "w3"}, name : {"Weather", "Renamed"}],
     nodes : {<<>>,
              <<[id |-> "start", type |-> "start", data |-> "json"]>>,
              <<[id |-> "start", type |-> "start", data |-> "json"],
                [id |-> "form", type |-> "form", data |-> "json"]>>,
              <<[id |-> "start", type |-> "start", data |-> "json"],
                [id |-> "form", type |-> "form", data |-> ""]>>},
     edges : {<<>>, <<[id |-> "e9", source |-> "start", target |-> "form"]>>}]

InitSave ==
    /\ Idle
    /\ probe = [tables |-> SeededTables, tx |-> SeededTables, at |-> "idle",
                arg |-> <<>>, before |-> SeededTables, result |-> "none", saves |-> 0]

\* the call and r.db.BeginTx
CallSaveWorkflow ==
    /\ probe.at = "idle"
    /\ probe.saves < MaxSaves
    /\ \E arg \in SaveArgs :
          probe' = [probe EXCEPT !.arg = <<arg>>, !.at = "upsert", !.tx = probe.tables,
                                 !.before = probe.tables, !.result = "none",
                                 !.saves = @ + 1]
    /\ UNCHANGED <<workflow, req, api, pc, cur, stack, variables, steps, response,
                   returnedErr, sentEmails, sendAttempts, apiCalls, earlier, inflight>>

ExecUpsertWorkflow ==
    /\ probe.at = "upsert"
    /\ probe' = [probe EXCEPT !.tx = UpsertWorkflow(probe.tx, probe.arg[1].workflow),
                              !.at = "deleteEdges"]
    /\ UNCHANGED <<workflow, req, api, pc, cur, stack, variables, steps, response,
                   returnedErr, sentEmails, sendAttempts, apiCalls, earlier, inflight>>

ExecDeleteEdges ==
    /\ probe.at = "deleteEdges"
    /\ probe' = [probe EXCEPT !.tx = DeleteEdges(probe.tx, probe.arg[1].workflow.id),
                              !.at = "deleteNodes"]
    /\ UNCHANGED <<workflow, req, api, pc, cur, stack, variables, steps, response,
                   returnedErr, sentEmails, sendAttempts, apiCalls, earlier, inflight>>

ExecDeleteNodes ==
    /\ probe.at = "deleteNodes"
    /\ probe' = [probe EXCEPT !.tx = DeleteNodes(probe.tx, probe.arg[1].workflow.id),
                              !.at = "insertNodes"]
    /\ UNCHANGED <<workflow, req, api, pc, cur, stack, variables, steps, response,
                   returnedErr, sentEmails, sendAttempts, apiCalls, earlier, inflight>>

\* if len(nodes) > 0: UpdateRawDataFromData on every node, which fails for a
\* node without Data, then the batch insert
ExecInsertNodes ==
    /\ probe.at = "insertNodes"
    /\ LET nodes == probe.arg[1].nodes
       IN IF \E i \in 1..Len(nodes) : nodes[i].data = ""
          THEN probe' = [probe EXCEPT !.tables = Rollback(probe.tables, probe.tx),
                                      !.at = "idle", !.result = "error"]
          ELSE probe' = [probe EXCEPT
                            !.tx = IF Len(nodes) > 0
                                   THEN InsertNodes(probe.tx, probe.arg[1].workflow.id, nodes)
                                   ELSE probe.tx,
                            !.at = "insertEdges"]
    /\ UNCHANGED <<workflow, req, api, pc, cur, stack, variables, steps, response,
                   returnedErr, sentEmails, sendAttempts, apiCalls, earlier, inflight>>

ExecInsertEdges ==
    /\ probe.at = "insertEdges"
    /\ LET edges == probe.arg[1].edges
       IN probe' = [probe EXCEPT
                       !.tx = IF Len(edges) > 0
                              THEN InsertEdges(probe.tx, probe.arg[1].workflow.id, edges)
                              ELSE probe.tx,
                       !.at = "commit"]
    /\ UNCHANGED <<workflow, req, api, pc, cur, stack, variables, steps, response,
                   returnedErr, sentEmails, sendAttempts, apiCalls, earlier, inflight>>

\* tx.Commit() succeeds: the copy becomes the tables
Commit ==
    /\ probe.at = "commit"
    /\ probe' = [probe EXCEPT !.tables = probe.tx, !.at = "idle", !.result = "ok"]
    /\ UNCHANGED <<workflow, req, api, pc, cur, stack, variables, steps, response,
                   returnedErr, sentEmails, sendAttempts, apiCalls, earlier, inflight>>

\* BeginTx, a statement or the commit returns an error: SaveWorkflow returns
\* it and the deferred Rollback runs
StatementFails ==
    /\ probe.at \in {"upsert", "deleteEdges", "deleteNodes", "insertNodes", "insertEdges",
                     "commit"}
    /\ probe' = [probe EXCEPT !.tables = Rollback(probe.tables, probe.tx),
                              !.at = "idle", !.result = "error"]
    /\ UNCHANGED <<workflow, req, api, pc, cur, stack, variables, steps, response,
                   returnedErr, sentEmails, sendAttempts, apiCalls, earlier, inflight>>

NextSave ==
    \/ CallSaveWorkflow
    \/ ExecUpsertWorkflow
    \/ ExecDeleteEdges
    \/ ExecDeleteNodes
    \/ ExecInsertNodes
    \/ ExecInsertEdges
    \/ Commit
    \/ StatementFails

SpecSave == InitSave /\ [][NextSave]_vars

\* ------------------------------------------------------------ properties

Last(seq) == seq[Len(seq)]
NodeIds(trace) == [i \in 1..Len(trace) |-> trace[i].nodeId]
HasStart == findStartFrom(workflow.nodes, 1) # <<>>
IsNode(id) == \E i \in 1..Len(workflow.nodes) : workflow.nodes[i].id = id

\* C1: a node whose dispatch fails is the last node of the run: its step is
\* failed, carries the error and ends the trace, nothing is left pending, and
\* the response is failed with that error and the trace up to that step.
C1_DispatchErrorAborts ==
    \A i \in 1..Len(steps) :
        steps[i].status = "failed" =>
            /\ i = Len(steps)
            /\ steps[i].error # NoErr
            /\ pc = "done"
            /\ stack = <<>>
            /\ cur = <<>>
            /\ response.status = "failed"
            /\ response.error # NoErr
            /\ response.error = steps[i].error
            /\ response.steps = steps

\* a run aborted by a failed step while an edge of the start node to an
\* existing node was still waiting its turn
C1_Witness ==
    /\ pc = "done"
    /\ Len(steps) >= 2
    /\ Last(steps).status = "failed"
    /\ \E i \in 1..Len(workflow.edges) :
          /\ workflow.edges[i].source = steps[1].nodeId
          /\ IsNode(workflow.edges[i].target)
          /\ \A j \in 1..Len(steps) : steps[j].nodeId # workflow.edges[i].target

\* C2: in every failed response of a workflow that has a start node, the last
\* step is failed and carries the top-level error.
C2_EveryAbortIsInAStep ==
    (pc = "done" /\ response.status = "failed" /\ HasStart) =>
        /\ Len(response.steps) > 0
        /\ Last(response.steps).status = "failed"
        /\ Last(response.steps).error = response.error

\* C3: without a start node the run fails at once: no step, no outbound
\* call, no email, and the error "no start node found".
C3_NoStartNode ==
    ~HasStart =>
        /\ steps = <<>>
        /\ apiCalls = 0
        /\ sentEmails = <<>>
        /\ pc \in {"ready", "done"}
        /\ pc = "done" =>
              response = [status |-> "failed", steps |-> <<>>,
                          error |-> <<"no start node found">>]

\* a finished run of a workflow that has nodes and edges but no start node
C3_Witness ==
    /\ ~HasStart
    /\ pc = "done"
    /\ Len(workflow.nodes) > 0
    /\ Len(workflow.edges) > 0
    /\ response.status = "failed"

\* the edge-selection rule as stated: "true" with a true result, "false"
\* with a false result, no handle with a true result
SelectedBy(sourceHandle, r) ==
    \/ sourceHandle = <<"true">> /\ r
    \/ sourceHandle = <<"false">> /\ ~r
    \/ sourceHandle = <<>> /\ r

\* the boolean in the output of the condition step at position i
ResultAt(trace, i) == trace[i].output["conditionMet"].b

\* C4: when the loop of a condition node whose step completed with result r
\* reaches an edge, the engine goes on to execute the edge's target exactly
\* when the edge is selected by r (it fails the run when the target is not a
\* node), and otherwise passes to the next edge without executing anything;
\* a node the engine goes on to execute is the node of the next step.
C4_EdgeSelection ==
    [][ /\ (InLoop /\ stack[1].node.type = "condition") =>
            LET e == TopEdge
                visit == steps[stack[1].step]
                r == ResultAt(steps, stack[1].step)
            IN /\ visit.nodeId = stack[1].node.id
               /\ visit.status = "completed"
               /\ IF SelectedBy(e.sourceHandle, r)
                  THEN IF IsNode(e.target)
                       THEN pc' = "executeNode" /\ cur'[1].id = e.target
                       ELSE pc' = "done" /\ response'.status = "failed"
                  ELSE /\ pc' = "nextNodes"
                       /\ steps' = steps
                       /\ stack' = Advance
        /\ (pc = "executeNode" /\ steps' # steps) =>
              /\ Len(steps') = Len(steps) + 1
              /\ Last(steps').nodeId = cur[1].id
      ]_vars

\* the engine is about to execute the target of a "false" edge of a condition
\* node whose result is false
C4_Witness ==
    /\ pc = "executeNode"
    /\ stack # <<>>
    /\ stack[1].node.type = "condition"
    /\ stack[1].next = 2
    /\ stack[1].edges[1].sourceHandle = <<"false">>
    /\ ~ResultAt(steps, stack[1].step)
    /\ cur[1].id = stack[1].edges[1].target

\* the outgoing edges of a node in the order of the workflow's edge list
OutEdges(id) == SelectSeq(workflow.edges, LAMBDA e: e.source = id)

\* whether the visit at position pos of the trace follows edge e
Follows(trace, pos, e) ==
    IF trace[pos].type = "condition"
    THEN SelectedBy(e.sourceHandle, ResultAt(trace, pos))
    ELSE TRUE

\* the depth-first pre-order walk from node id, appended to acc: the node,
\* then the walk of each followed edge's target in edge-list order (a
\* condition node's result is read off the trace at the node's position);
\* cut off once it is longer than any trace of the model
RECURSIVE PreOrder(_, _, _), PreOrderEdges(_, _, _, _, _)
PreOrder(trace, id, acc) ==
    IF Len(acc) >= Len(trace) THEN Append(acc, id)
    ELSE PreOrderEdges(trace, OutEdges(id), 1, Len(acc) + 1, Append(acc, id))
PreOrderEdges(trace, edges, k, pos, acc) ==
    IF k > Len(edges) \/ Len(acc) > Len(trace) THEN acc
    ELSE IF Follows(trace, pos, edges[k])
    THEN PreOrderEdges(trace, edges, k + 1, pos, PreOrder(trace, edges[k].target, acc))
    ELSE PreOrderEdges(trace, edges, k + 1, pos, acc)

\* C5: the trace of a completed run is the depth-first pre-order walk from
\* the start node that follows the edges in edge-list order.
C5_PreOrderTrace ==
    (pc = "done" /\ response.status = "completed") =>
        NodeIds(response.steps) = PreOrder(response.steps, response.steps[1].nodeId, <<>>)

\* a completed run in which the start node has two edges to different nodes
\* and the first one leads to a subtree of more than one node
C5_Witness ==
    /\ pc = "done"
    /\ response.status = "completed"
    /\ Len(steps) >= 4
    /\ Len(OutEdges(steps[1].nodeId)) >= 2
    /\ OutEdges(steps[1].nodeId)[1].target # OutEdges(steps[1].nodeId)[2].target
    /\ steps[2].nodeId = OutEdges(steps[1].nodeId)[1].target
    /\ steps[3].nodeId # OutEdges(steps[1].nodeId)[2].target

\* number of steps of node id in the trace
Visits(trace, id) == Cardinality({i \in 1..Len(trace) : trace[i].nodeId = id})

\* number of times an edge into node id was followed: one per visit of the
\* edge's source that follows the edge
Arrivals(trace, id) ==
    Cardinality({p \in (1..Len(trace)) \X (1..Len(workflow.edges)) :
        LET e == workflow.edges[p[2]]
        IN /\ e.source = trace[p[1]].nodeId
           /\ e.target = id
           /\ Follows(trace, p[1], e)})

StepsOfType(trace, type) == Cardinality({i \in 1..Len(trace) : trace[i].type = type})

\* C6: in a completed run every node is executed once for every followed
\* edge that arrives at it (once more for the start node), whether or not it
\* was executed before; each visit is one step and makes its outbound call
\* or sends its email again.
C6_NoVisitedSet ==
    (pc = "done" /\ response.status = "completed") =>
        /\ \A i \in 1..Len(workflow.nodes) :
              LET id == workflow.nodes[i].id
              IN Visits(steps, id) =
                    Arrivals(steps, id) + (IF id = steps[1].nodeId THEN 1 ELSE 0)
        /\ apiCalls = StepsOfType(steps, "integration")
        /\ Len(sentEmails) = StepsOfType(steps, "email")

\* a completed run that executed an integration node twice, with two
\* outbound calls
C6_Witness ==
    /\ pc = "done"
    /\ response.status = "completed"
    /\ \E i, j \in 1..Len(steps) :
          /\ i < j
          /\ steps[i].nodeId = steps[j].nodeId
          /\ steps[i].type = "integration"
    /\ apiCalls = 2

\* C7: no node is executed as the successor of an end node: the engine never
\* goes on to execute the target of an edge that leaves an end node.
C7_HaltsAtEnd ==
    (pc = "executeNode" /\ stack # <<>>) => stack[1].node.type # "end"

\* C8: a completed run of a workflow that passes validation has a non-empty
\* trace whose last visited node, the last one with nothing left to follow,
\* is an end node.
C8_CompletedRunEndsAtEnd ==
    (pc = "done" /\ response.status = "completed" /\ ValidateWorkflow(workflow) = <<>>) =>
        /\ Len(response.steps) > 0
        /\ Last(response.steps).type = "end"

\* C9: the linear workflow with Alice's submission, greater_than 25 and 28.5
\* degrees for Sydney completes, visits the nodes in graph order, meets the
\* condition and captures exactly one email, addressed to the submitted address.
C9_LinearScenario ==
    (/\ workflow = [nodes |-> LinearNodes, edges |-> LinearEdges]
     /\ req = Request(Alice, TRUE, Condition("greater_than", 250))
     /\ api = DefaultWeatherClient
     /\ pc = "done") =>
        /\ response.status = "completed"
        /\ response.error = NoErr
        /\ NodeIds(response.steps) =
              <<"start", "form", "weather", "condition", "email", "end">>
        /\ \A i \in 1..Len(response.steps) : response.steps[i].status = "completed"
        /\ response.steps[3].output["temperature"] = Num(285)
        /\ response.steps[4].output["conditionMet"] = Bool(TRUE)
        /\ Len(sentEmails) = 1
        /\ sentEmails[1].to = "alice@example.com"
        /\ sentEmails[1].to = req.formData["email"].s

\* the scenario's run has finished
C9_Witness ==
    /\ workflow = [nodes |-> LinearNodes, edges |-> LinearEdges]
    /\ req = Request(Alice, TRUE, Condition("greater_than", 250))
    /\ api = DefaultWeatherClient
    /\ pc = "done"
    /\ Len(steps) = 6

\* the comparison an operator stands for, by the sign of temperature - threshold
Compares(operator, difference) ==
    CASE operator = "greater_than" -> difference > 0
      [] operator = "less_than" -> difference < 0
      [] operator = "equals" -> difference = 0
      [] operator = "greater_than_or_equal" -> ~(difference < 0)
      [] operator = "less_than_or_equal" -> ~(difference > 0)

\* C10: for the five supported operators the condition step completes and
\* its result, in the output and in variables["conditionMet"], is the
\* operator's comparison of temperature with threshold; for any other
\* operator the step fails with an unsupported-operator error and
\* variables["conditionMet"] stays unwritten.
C10_ConditionResult ==
    probe # <<>> /\ probe.out # <<>> =>
        LET o == probe.out[1]
        IN IF probe.operator \in {"greater_than", "less_than", "equals",
                                  "greater_than_or_equal", "less_than_or_equal"}
           THEN /\ o.err = NoErr
                /\ o.output["conditionMet"] =
                      Bool(Compares(probe.operator, probe.temperature - probe.threshold))
                /\ o.variables["conditionMet"] = o.output["conditionMet"]
           ELSE /\ o.err = <<"condition evaluation failed",
                             "unsupported operator: " \o probe.operator>>
                /\ ~Has(o.variables, "conditionMet")

\* equals was evaluated on a temperature equal to the threshold, and
\* the condition was met
C10_Witness ==
    /\ probe # <<>>
    /\ probe.out # <<>>
    /\ probe.operator = "equals"
    /\ probe.temperature = probe.threshold
    /\ probe.out[1].output["conditionMet"] = Bool(TRUE)

\* C11: once ExecuteWorkflow has set the context up and before any step is
\* appended, the variables are exactly condition_<k> -> condition[k] for the
\* keys k of the request's condition map, and there is none when the request
\* has no condition map.
C11_ConditionVariables ==
    (pc # "ready" /\ steps = <<>>) =>
        IF req.hasCondition
        THEN /\ \A k \in DOMAIN req.condition :
                   /\ Has(variables, "condition_" \o k)
                   /\ variables["condition_" \o k] = req.condition[k]
             /\ DOMAIN variables = {"condition_" \o k : k \in DOMAIN req.condition}
        ELSE DOMAIN variables = {}

\* the start node is about to be dispatched with the operator and the
\* threshold of the request in the variables
C11_Witness ==
    /\ pc = "executeNode"
    /\ steps = <<>>
    /\ req.hasCondition
    /\ DOMAIN req.condition = {"operator", "threshold"}
    /\ variables["condition_operator"] = Str("less_than")
    /\ variables["condition_threshold"] = Num(285)

\* C12: an integration step completes only after a form step of the same run
\* has completed (the city is read from the variables the form node fills),
\* and a completed integration step leaves temperature and location in the
\* variables.
C12_CityFromVariables ==
    \A i \in 1..Len(steps) :
        (steps[i].type = "integration" /\ steps[i].status = "completed") =>
            /\ \E j \in 1..(i - 1) : steps[j].type = "form" /\ steps[j].status = "completed"
            /\ Has(variables, "temperature")
            /\ Has(variables, "location")

\* C13: the second of two runs of the same workflow with the same request
\* against the same collaborators returns the response of the first: the same
\* status, error and steps (node ids, types, statuses, errors and outputs).
C13_SameResponse ==
    (pc = "done" /\ earlier # <<>>) => response = earlier[1]

\* both runs of the linear workflow completed, each capturing an email
C13_Witness ==
    /\ pc = "done"
    /\ earlier # <<>>
    /\ response.status = "completed"
    /\ Len(response.steps) = 6
    /\ Len(sentEmails) = 2

\* the integration steps of the trace whose visit got as far as the outbound call
CallingSteps(trace) ==
    {i \in 1..Len(trace) :
        /\ trace[i].type = "integration"
        /\ \/ trace[i].status = "completed"
           \/ (Len(trace[i].error) >= 2
               /\ trace[i].error[2] \in {"API call failed", "failed to extract temperature"})}

\* C14: at every point of a run the outbound calls made are at most the
\* integration steps and the SendEmail calls at most the email steps: one
\* call for each integration visit that reached the call, failed or not, and
\* one send for each email visit that found a recipient.
C14_NoRetry ==
    /\ apiCalls <= StepsOfType(steps, "integration")
    /\ apiCalls = Cardinality(CallingSteps(steps))
    /\ sendAttempts <= StepsOfType(steps, "email")
    /\ Len(sentEmails) <= sendAttempts

\* a run that ended on an integration step whose outbound call failed, after
\* one call
C14_Witness ==
    /\ pc = "done"
    /\ steps # <<>>
    /\ Last(steps).type = "integration"
    /\ Last(steps).status = "failed"
    /\ Len(Last(steps).error) >= 2
    /\ Last(steps).error[2] = "API call failed"
    /\ apiCalls = 1

\* the runs whose email node returned without an error
Delivered == {r \in DOMAIN inflight : inflight[r].out # <<>> /\ inflight[r].out[1].err = NoErr}

\* C15: when all the concurrent runs have returned, the email service holds
\* what it would hold had they run one after the other: one record for every
\* run whose email node completed, none lost.
C15_NoEmailLost ==
    (inflight # <<>> /\ \A r \in DOMAIN inflight : inflight[r].pc = "done") =>
        /\ Len(sentEmails) = Cardinality(Delivered)
        /\ \A r \in Delivered :
              \E i \in 1..Len(sentEmails) :
                 sentEmails[i].to = inflight[r].variables["email"].s

\* the node ids of the executeNode calls in progress, outermost last: the
\* node being executed, then the nodes whose edge loops are waiting
CallChain == [i \in 1..Len(cur) |-> cur[i].id] \o [i \in 1..Len(stack) |-> stack[i].node.id]

\* a node is being executed inside a call of executeNode on itself
Recursing == \E i, j \in 1..Len(CallChain) : i < j /\ CallChain[i] = CallChain[j]

\* the edges the visits of a trace followed, as <<source, target>>
FollowedEdges(trace) ==
    {<<workflow.edges[p[2]].source, workflow.edges[p[2]].target>> :
        p \in {q \in (1..Len(trace)) \X (1..Len(workflow.edges)) :
                 /\ workflow.edges[q[2]].source = trace[q[1]].nodeId
                 /\ Follows(trace, q[1], workflow.edges[q[2]])}}

\* the nodes reached from a set of nodes along the given edges
RECURSIVE ReachedFrom(_, _)
ReachedFrom(pairs, from) ==
    LET more == from \cup {p[2] : p \in {q \in pairs : q[1] \in from}}
    IN IF more = from THEN from ELSE ReachedFrom(pairs, more)

\* some visited node leads back to itself along followed edges
OnFollowedCycle(trace) ==
    \E i \in 1..Len(trace) :
        LET pairs == FollowedEdges(trace)
            succ == {p[2] : p \in {q \in pairs : q[1] = trace[i].nodeId}}
        IN trace[i].nodeId \in ReachedFrom(pairs, succ)

C17_ErrorInResponse ==
    pc = "done" =>
        /\ returnedErr = NoErr
        /\ response # NoResponse
        /\ response.status \in {"completed", "failed"}
        /\ response.status = "failed" <=> response.error # NoErr

\* ExecuteWorkflow returned after the outbound call of the integration node
\* failed
C17_Witness ==
    /\ pc = "done"
    /\ api = FailingClient
    /\ response.status = "failed"
    /\ Len(response.error) >= 2
    /\ response.error[2] = "API call failed"
    /\ returnedErr = NoErr

\* ExecuteIntegration was called with a node whose data parse and a city
\* that is a string
CalledWithCity ==
    /\ probe # <<>>
    /\ probe.out # <<>>
    /\ probe.node.data = "json"
    /\ Has(probe.inputVariables, "city")
    /\ probe.inputVariables["city"].k = "string"

\* the positions of the options whose city is the name up to letter case
Matching(options, name) == {i \in 1..Len(options) : Lower(options[i].city) = Lower(name)}

\* C18: with a city that matches none of the node's options, ExecuteIntegration
\* returns no result and an error whose message starts with
\* city '<name>' not found in available options, without an outbound call.
C18_CityNotFound ==
    (CalledWithCity
     /\ Matching(probe.node.options, probe.inputVariables["city"].s) = {}) =>
        LET o == probe.out[1]
        IN /\ o.err # NoErr
           /\ o.err[1] = "city '" \o probe.inputVariables["city"].s
                            \o "' not found in available options"
           /\ o.result = EmptyMap
           /\ o.calls = 0

\* Perth was looked up among Sydney and Melbourne
C18_Witness ==
    /\ CalledWithCity
    /\ probe.inputVariables["city"].s = "Perth"
    /\ getCityNames(probe.node.options) = <<"Sydney", "Melbourne">>
    /\ probe.out[1].err # NoErr
    /\ probe.out[1].calls = 0

\* C19: with a city that matches an option up to letter case, the first such
\* option in declaration order is the one used: the call goes to its
\* coordinates, and on success the temperature is the one at those
\* coordinates and the location, in the result and in variables["location"],
\* is the option's own city name.
C19_FirstMatchCanonicalName ==
    (CalledWithCity
     /\ Matching(probe.node.options, probe.inputVariables["city"].s) # {}) =>
        LET o == probe.out[1]
            matching == Matching(probe.node.options, probe.inputVariables["city"].s)
            first == CHOOSE i \in matching : \A j \in matching : i <= j
            option == probe.node.options[first]
            reading == probe.client[option.lat]
        IN /\ o.calls = 1
           /\ (o.err = NoErr) <=> (reading.kind = "weather")
           /\ o.err = NoErr =>
                 /\ o.result["location"] = Str(option.city)
                 /\ o.result["temperature"] = Num(reading.temperature)
                 /\ probe.step[1].err = NoErr
                 /\ probe.step[1].variables["location"] = Str(option.city)
                 /\ probe.step[1].variables["temperature"] = Num(reading.temperature)

\* sydney was looked up among Melbourne, Sydney and, after it, SYDNEY at the
\* coordinates of Melbourne: the answer is Sydney with Sydney's temperature
C19_Witness ==
    /\ CalledWithCity
    /\ probe.inputVariables["city"].s = "sydney"
    /\ getCityNames(probe.node.options) = <<"Sydney", "SYDNEY">>
    /\ probe.client = DefaultWeatherClient
    /\ probe.out[1].result["location"] = Str("Sydney")
    /\ probe.out[1].result["temperature"] = Num(285)

\* C20: when the outbound call of an integration node returns an error, the
\* node's step fails with the error API call failed wrapping the client's
\* error, has no output, ends the run, and leaves variables["temperature"]
\* and variables["location"] unwritten.
C20_ApiFailure ==
    (api = FailingClient /\ apiCalls > 0) =>
        /\ Last(steps).type = "integration"
        /\ Last(steps).status = "failed"
        /\ Last(steps).error = <<"integration execution failed", "API call failed",
                                 "API error: service unavailable">>
        /\ Last(steps).output = EmptyMap
        /\ ~Has(variables, "temperature")
        /\ ~Has(variables, "location")
        /\ response.status = "failed"
        /\ response.error = Last(steps).error
        /\ apiCalls = 1

\* the linear workflow's run ended on the failed call for Sydney
C20_Witness ==
    /\ api = FailingClient
    /\ apiCalls = 1
    /\ pc = "done"
    /\ NodeIds(steps) = <<"start", "form", "weather">>
    /\ req.formData = Alice

\* C21: SendEmail with an empty recipient or an empty subject returns an
\* error and leaves the log as it was; otherwise it returns nil and the log is
\* the old log with one record appended, holding the to, subject and body given.
C21_SendEmailAtomic ==
    (probe # <<>> /\ probe.out # <<>>) =>
        IF probe.to = "" \/ probe.subject = ""
        THEN /\ probe.out[1] # NoErr
             /\ sentEmails = probe.log
        ELSE /\ probe.out[1] = NoErr
             /\ Len(sentEmails) = Len(probe.log) + 1
             /\ \A i \in 1..Len(probe.log) : sentEmails[i] = probe.log[i]
             /\ Last(sentEmails) =
                   [to |-> probe.to, subject |-> probe.subject, body |-> probe.body]

\* an email to bob was appended to a log that held one to alice
C21_Witness ==
    /\ probe # <<>>
    /\ probe.out = <<NoErr>>
    /\ Len(probe.log) = 1
    /\ probe.log[1].to = "alice@example.com"
    /\ Len(sentEmails) = 2
    /\ sentEmails[2].to = "bob@example.com"

\* ValidateFormData has returned
Validated == probe # <<>> /\ probe.out # <<>>

\* C22: with nil node data or no declared input field ValidateFormData
\* returns nil for every submission, the empty one included.
C22_NoRulesAcceptsAll ==
    (Validated /\ Len(DeclaredFields(probe.nodeData)) = 0) => probe.out[1] = NoErr

\* the empty submission was accepted under nil node data
C22_Witness ==
    /\ Validated
    /\ probe.nodeData = <<>>
    /\ probe.formData = EmptyMap
    /\ probe.out = <<NoErr>>

\* the value is a string that is not blank
NonBlankString(value) == value.k = "string" /\ value.s \notin {"", " ", "  "}

\* the declared field fails on the submission, as the rule is stated
FieldFails(formData, fieldName) ==
    \/ fieldName \notin DOMAIN formData
    \/ formData[fieldName].k = "nil"
    \/ (formData[fieldName].k = "string" /\ ~NonBlankString(formData[fieldName]))
    \/ (fieldName = "email"
        /\ ~(formData[fieldName].k = "string" /\ ParsesAsAddress(formData[fieldName].s)))
    \/ (fieldName = "name" /\ ~NonBlankString(formData[fieldName]))

\* C23: with at least one declared field ValidateFormData returns an error
\* exactly when some declared field is absent, nil, a blank string, the
\* email field and not a string that parses as an address, or the name field
\* and not a non-blank string; zero is present, and fields that are not
\* declared do not count.
C23_ErrorIffAFieldFails ==
    (Validated /\ Len(DeclaredFields(probe.nodeData)) > 0) =>
        LET fields == DeclaredFields(probe.nodeData)
        IN (probe.out[1] # NoErr) <=>
              \E i \in 1..Len(fields) : FieldFails(probe.formData, fields[i])

\* a submission with city zero, an undeclared nil phone and the declared
\* fields city and name was accepted
C23_Witness ==
    /\ Validated
    /\ DeclaredFields(probe.nodeData) = <<"city", "name">>
    /\ Has(probe.formData, "phone")
    /\ Lookup(probe.formData, "phone") = Nil
    /\ Has(probe.formData, "city")
    /\ Lookup(probe.formData, "city") = Num(0)
    /\ Lookup(probe.formData, "name") = Str("Alice")
    /\ probe.out = <<NoErr>>

\* the entry of the combined message for a declared field that fails
FieldEntry(formData, fieldName) ==
    IF fieldName \notin DOMAIN formData
       \/ formData[fieldName].k = "nil"
       \/ (formData[fieldName].k = "string" /\ ~NonBlankString(formData[fieldName]))
    THEN "field '" \o fieldName \o "' is required"
    ELSE IF formData[fieldName].k # "string"
    THEN "field '" \o fieldName \o "': must be a string"
    ELSE "field '" \o fieldName \o "': must be a valid email address"

\* the declared fields that fail, in declaration order
FailingFields(formData, fields) == SelectSeq(fields, LAMBDA f: FieldFails(formData, f))

\* C24: the error of ValidateFormData is one message made of one entry for
\* every declared field that fails, in declaration order, joined by "; ".
C24_AllFailuresCollected ==
    (Validated /\ probe.out[1] # NoErr) =>
        LET failing == FailingFields(probe.formData, DeclaredFields(probe.nodeData))
            entries == [i \in 1..Len(failing) |-> FieldEntry(probe.formData, failing[i])]
        IN /\ Len(failing) > 0
           /\ Len(probe.out[1]) = 1
           /\ probe.out[1][1] = "validation errors: " \o Join(entries, "; ")

\* both declared fields failed, email first: the message holds both entries
C24_Witness ==
    /\ Validated
    /\ DeclaredFields(probe.nodeData) = <<"email", "name">>
    /\ probe.out =
          << <<"validation errors: field 'email': must be a valid email address; field 'name' is required">> >>

\* the positions of the nodes of a type
NodesOfType(nodes, type) == {i \in 1..Len(nodes) : nodes[i].type = type}

\* the ids reached from the node id along the edges, the node included
ReachableIds(edges, id) ==
    ReachedFrom({<<edges[i].source, edges[i].target>> : i \in 1..Len(edges)}, {id})

\* exactly one start node, at least one end node, every end node reachable
\* from the start node
IsValidWorkflow(wr) ==
    /\ Cardinality(NodesOfType(wr.nodes, "start")) = 1
    /\ NodesOfType(wr.nodes, "end") # {}
    /\ \A i \in NodesOfType(wr.nodes, "start"), j \in NodesOfType(wr.nodes, "end") :
          wr.nodes[j].id \in ReachableIds(wr.edges, wr.nodes[i].id)

\* C25: ValidateWorkflow returns no error exactly when the workflow has
\* exactly one start node, at least one end node and every end node is
\* reachable from the start node along the edges.
C25_ValidIffReachable ==
    (probe # <<>> /\ probe.called) => ((probe.errors = <<>>) <=> IsValidWorkflow(probe.wr))

ErrStart == [field |-> "nodes", message |-> "workflow must have exactly one start node"]
ErrEnd == [field |-> "nodes", message |-> "workflow must have at least one end node"]
ErrPath ==
    [field |-> "edges", message |-> "no valid path exists from start node to all end nodes"]

\* C26: the errors of ValidateWorkflow are the start-node error when there is
\* not exactly one start node, then the end-node error when there is no end
\* node, and, only when neither is reported, possibly the path error: never
\* an edges error beside a nodes error, and exactly the two nodes errors for
\* a workflow without start and end nodes.
C26_OneErrorPerRule ==
    (probe # <<>> /\ probe.called) =>
        LET oneStart == Cardinality(NodesOfType(probe.wr.nodes, "start")) = 1
            anEnd == NodesOfType(probe.wr.nodes, "end") # {}
        IN /\ probe.errors \in {<<>>, <<ErrStart>>, <<ErrEnd>>, <<ErrStart, ErrEnd>>, <<ErrPath>>}
           /\ (\E i \in 1..Len(probe.errors) : probe.errors[i] = ErrStart) <=> ~oneStart
           /\ (\E i \in 1..Len(probe.errors) : probe.errors[i] = ErrEnd) <=> ~anEnd
           /\ (\E i \in 1..Len(probe.errors) : probe.errors[i].field = "edges") =>
                 (oneStart /\ anEnd)

\* a workflow with a form node and edges but neither a start nor an end node
\* got the two nodes errors
C26_Witness ==
    /\ probe # <<>>
    /\ probe.called
    /\ Len(probe.wr.nodes) = 1
    /\ probe.wr.nodes[1].type = "form"
    /\ Len(probe.wr.edges) > 0
    /\ probe.errors = <<ErrStart, ErrEnd>>

\* C27: hasValidPath terminates on every graph, cyclic or not: no id is put
\* on the queue twice, the search reaches its return, and it returns false
\* when no end node is reached from the start node, as when every path from
\* the start node loops among other nodes.
C27_PathTerminates ==
    /\ [](probe # <<>> =>
            /\ \A i, j \in 1..Len(probe.enqueued) :
                  probe.enqueued[i] = probe.enqueued[j] => i = j
            /\ (probe.at = "done"
                /\ \A s \in NodesOfType(probe.wr.nodes, "start"),
                      e \in NodesOfType(probe.wr.nodes, "end") :
                      probe.wr.nodes[e].id \notin ReachableIds(probe.wr.edges, probe.wr.nodes[s].id))
               => ~probe.result)
    /\ <>(probe # <<>> /\ probe.at = "done")

\* a search that went round the loop s -> m -> s with an end node in the
\* workflow has returned false
C27_Witness ==
    /\ probe # <<>>
    /\ probe.at = "done"
    /\ ~probe.result
    /\ NodesOfType(probe.wr.nodes, "end") # {}
    /\ probe.enqueued = <<"s", "m">>
    /\ \E i, j \in 1..Len(probe.wr.edges) :
          /\ probe.wr.edges[i].source = "s" /\ probe.wr.edges[i].target = "m"
          /\ probe.wr.edges[j].source = "m" /\ probe.wr.edges[j].target = "s"

\* C28: executing a workflow validates it first: a workflow that
\* ValidateWorkflow finds invalid (not exactly one start node, no end node, or
\* an end node not reachable from the start node) is refused before any node
\* runs, so its run has no step.
C28_InvalidWorkflowNotExecuted ==
    ValidateWorkflow(workflow) # <<>> => steps = <<>>

RequiredAbsent(nodeType, rawData) ==
    \/ nodeType = "integration" /\ rawData.apiEndpoint = ""
    \/ nodeType = "email" /\ (rawData.subject = "" \/ rawData.body = "")
    \/ nodeType = "form" /\ Len(rawData.inputFields) = 0
    \/ nodeType = "condition" /\ rawData.conditionExpression = ""

\* C29: ParseNodeData fails for a type string that is none of the six, and
\* for a document that decodes it fails exactly when the required field of
\* the kind is absent (integration: API endpoint; email: subject or body;
\* form: an input field; condition: expression), never for start and end;
\* Node.ValidateData fails when the node has no data, when the data's kind
\* differs from the node's type, and otherwise exactly when the data does
\* not validate.
C29_RequiredFields ==
    (probe # <<>> /\ probe.at # "parse") =>
        /\ probe.nodeType \notin {"start", "form", "integration", "condition", "email", "end"}
              => (probe.err # NoErr /\ probe.data = <<>>)
        /\ (probe.nodeType \in {"start", "form", "integration", "condition", "email", "end"}
            /\ probe.rawData.wellFormed)
              => ((probe.err # NoErr) <=> RequiredAbsent(probe.nodeType, probe.rawData))
        /\ probe.at = "done" =>
              /\ probe.data = <<>> => probe.dataErr # NoErr
              /\ (probe.data # <<>> /\ probe.type # probe.nodeType) => probe.dataErr # NoErr
              /\ (probe.data # <<>> /\ probe.type = probe.nodeType)
                    => ((probe.dataErr # NoErr)
                           <=> RequiredAbsent(probe.nodeType, probe.rawData))

\* an email document with a subject and without a body was refused by
\* ParseNodeData, and the data was refused again in a node of type
\* integration, for its kind
C29_Witness ==
    /\ probe # <<>>
    /\ probe.at = "done"
    /\ probe.nodeType = "email"
    /\ probe.rawData.wellFormed
    /\ probe.rawData.subject # ""
    /\ probe.rawData.body = ""
    /\ probe.err = <<"email node must have a body">>
    /\ probe.type = "integration"
    /\ probe.dataErr = <<"data type mismatch: expected integration, got email">>

\* one of the three inputs of a condition node is missing or of the wrong kind
ConditionInputsBad(vs) ==
    \/ ~Has(vs, "condition_operator")
    \/ Lookup(vs, "condition_operator").k # "string"
    \/ ~Has(vs, "condition_threshold")
    \/ Lookup(vs, "condition_threshold").k # "float64"
    \/ ~Has(vs, "temperature")
    \/ Lookup(vs, "temperature").k # "float64"

\* C31: executing a condition node while condition_operator is absent or not
\* a string, condition_threshold is absent or not a number, or temperature is
\* absent or not a number appends a failed step, leaves the variables as they
\* were (conditionMet is not written) and ends the run as failed with no
\* edge followed.
C31_ConditionInputs ==
    [][(pc = "executeNode" /\ cur[1].type = "condition" /\ ConditionInputsBad(variables)) =>
          /\ Len(steps') = Len(steps) + 1
          /\ Last(steps').type = "condition"
          /\ Last(steps').status = "failed"
          /\ variables' = variables
          /\ pc' = "done"
          /\ stack' = <<>>
          /\ cur' = <<>>
          /\ response'.status = "failed"
          /\ response'.steps = steps']_vars

\* a condition node with outgoing edges failed on a temperature that the
\* form submitted as a string
C31_Witness ==
    /\ pc = "done"
    /\ Len(steps) = 3
    /\ steps[3].type = "condition"
    /\ steps[3].status = "failed"
    /\ steps[3].error = <<"temperature must be a number">>
    /\ ~Has(variables, "conditionMet")
    /\ Len(OutEdges("condition")) > 0

\* C32: executing a node whose type is none of the six appends a failed step
\* with the error unsupported node type: <type>, and the run ends there as
\* failed with that error: nothing is left pending, so none of the node's
\* outgoing edges is followed.
C32_UnknownTypeFails ==
    [][(pc = "executeNode"
        /\ cur[1].type \notin {"start", "form", "integration", "condition", "email", "end"}) =>
          /\ steps' = Append(steps, [nodeId |-> cur[1].id, type |-> cur[1].type,
                                     status |-> "failed",
                                     error |-> <<"unsupported node type: " \o cur[1].type>>,
                                     output |-> EmptyMap])
          /\ pc' = "done"
          /\ stack' = <<>>
          /\ cur' = <<>>
          /\ response'.status = "failed"
          /\ response'.error = <<"unsupported node type: " \o cur[1].type>>]_vars

\* the run ended at a node of type webhook that has an edge to the end node,
\* which was not executed
C32_Witness ==
    /\ pc = "done"
    /\ response.status = "failed"
    /\ Len(steps) = 2
    /\ steps[2].type = "webhook"
    /\ steps[2].status = "failed"
    /\ \E i \in 1..Len(workflow.edges) :
          workflow.edges[i].source = steps[2].nodeId /\ IsNode(workflow.edges[i].target)
    /\ \A j \in 1..Len(steps) : steps[j].type # "end"

\* C33: in every response each step is completed or failed, at most one
\* step is failed and it is the last one, and the status is completed
\* exactly when every step of the trace is completed.
C33_StatusMatchesSteps ==
    pc = "done" =>
        /\ \A i \in 1..Len(response.steps) :
              /\ response.steps[i].status \in {"completed", "failed"}
              /\ response.steps[i].status = "failed" => i = Len(response.steps)
        /\ response.status = "completed"
              <=> \A i \in 1..Len(response.steps) : response.steps[i].status = "completed"

\* the rows of a table that belong to the workflow, and those that do not
RowsOf(rows, id) == {r \in rows : r.workflow_id = id}
RowsOfOthers(rows, id) == {r \in rows : r.workflow_id # id}

C35_ConditionResultStored ==
    [][/\ response'.error # <<"condition result not found in context">>
       /\ response'.error # <<"condition result must be boolean">>
       /\ (pc = "executeNode" /\ cur[1].type = "condition"
           /\ Len(steps') = Len(steps) + 1 /\ Last(steps').status = "completed") =>
             /\ Has(variables', "conditionMet")
             /\ variables'["conditionMet"].k = "bool"
             /\ variables'["conditionMet"] = Last(steps').output["conditionMet"]]_vars

\* a condition step has just completed in a run whose form node had put the
\* string yes in conditionMet
C35_Witness ==
    /\ pc = "nextNodes"
    /\ Len(steps) = 3
    /\ steps[2].type = "form"
    /\ steps[3].type = "condition"
    /\ steps[3].status = "completed"
    /\ Lookup(req.formData, "conditionMet") = Str("yes")
    /\ variables["conditionMet"].k = "bool"

\* C36: every edge of a condition node is selected by the result of the
\* visit the edge loop belongs to, the one in that visit's step output,
\* whatever variables["conditionMet"] holds by the time the edge is reached:
\* a selected edge has its target executed (or the run fails for a missing
\* target), an edge not selected is passed over.
C36_RoutedByOwnResult ==
    [][(InLoop /\ stack[1].node.type = "condition") =>
          LET own == steps[stack[1].step].output["conditionMet"].b
              target == nodeMap(workflow.nodes, TopEdge.target)
          IN IF shouldFollowEdge(TopEdge, own)
             THEN \/ target # <<>> /\ pc' = "executeNode" /\ cur' = target
                  \/ target = <<>> /\ pc' = "done" /\ response'.status = "failed"
             ELSE pc' = pc /\ cur' = cur /\ steps' = steps /\ stack' = Advance]_vars

\* the first condition node met its condition at 28.5 degrees; in the
\* subtree of its first edge a second integration node set 22.1 degrees and a
\* second condition node set conditionMet to false; the email node on the
\* next true edge of the first condition node was executed all the same
C36_Witness ==
    /\ Len(steps) = 6
    /\ steps[3].nodeId = "condition"
    /\ steps[3].output["conditionMet"] = Bool(TRUE)
    /\ steps[4].nodeId = "weather2"
    /\ steps[4].output["temperature"] = Num(221)
    /\ steps[5].nodeId = "condition2"
    /\ steps[5].output["conditionMet"] = Bool(FALSE)
    /\ variables["conditionMet"] = Bool(FALSE)
    /\ steps[6].nodeId = "email"

\* the positions of the completed email steps of a trace
CompletedEmailSteps(trace) ==
    {i \in 1..Len(trace) : trace[i].type = "email" /\ trace[i].status = "completed"}

\* C37: in a run that started with an empty email log, a step that executes
\* an email node and completes appends exactly one email, addressed as the
\* step's output says, at the end of the captured emails; every other step,
\* a failed email step and the failure of a later node included, leaves the
\* captured emails as they are; so the captured emails are as many as the
\* completed email steps, in their order.
C37_EmailsMatchSteps ==
    [][/\ IF pc = "executeNode" /\ cur[1].type = "email"
             /\ Len(steps') = Len(steps) + 1 /\ Last(steps').status = "completed"
          THEN /\ Len(sentEmails') = Len(sentEmails) + 1
               /\ SubSeq(sentEmails', 1, Len(sentEmails)) = sentEmails
               /\ Last(sentEmails').to = Last(steps').output["to"].s
          ELSE sentEmails' = sentEmails
       /\ Len(sentEmails') = Cardinality(CompletedEmailSteps(steps'))]_vars

\* two email steps completed and captured their emails, the node after them
\* failed, and the run is over with both emails still captured
C37_Witness ==
    /\ pc = "done"
    /\ response.status = "failed"
    /\ Len(steps) = 5
    /\ steps[3].type = "email" /\ steps[3].status = "completed"
    /\ steps[4].type = "email" /\ steps[4].status = "completed"
    /\ steps[5].status = "failed"
    /\ Len(sentEmails) = 2
    /\ sentEmails[1].to = "alice@example.com"

\* the step just appended is a completed step of a node of the given type
Completes(type) ==
    /\ pc = "executeNode"
    /\ cur[1].type = type
    /\ Len(steps') = Len(steps) + 1
    /\ Last(steps').status = "completed"

\* the last step of the trace is a completed form step
AfterForm ==
    /\ steps # <<>>
    /\ Last(steps).type = "form"
    /\ Last(steps).status = "completed"

\* C38: the step that executes a form node and completes leaves every
\* submitted key in the variables with the submitted value, whatever the
\* variable held before; once the run has started the variables change only
\* when a node is executed;
\* and the node executed next reads the submitted values: a condition node
\* reports the submitted operator, threshold and temperature as the ones it
\* compared, an email node writes the submitted location and temperature
\* into its email.
C38_FormFieldsWin ==
    [][/\ Completes("form") =>
             \A k \in DOMAIN req.formData :
                Has(variables', k) /\ variables'[k] = req.formData[k]
       /\ variables' # variables => pc \in {"ready", "executeNode"}
       /\ (AfterForm /\ Completes("condition")) =>
             /\ Has(req.formData, "condition_operator") =>
                   Last(steps').output["operator"] = req.formData["condition_operator"]
             /\ Has(req.formData, "condition_threshold") =>
                   Last(steps').output["threshold"] = req.formData["condition_threshold"]
             /\ Has(req.formData, "temperature") =>
                   Last(steps').output["actualValue"] = req.formData["temperature"]
       /\ (AfterForm /\ Completes("email")) =>
             /\ Has(req.formData, "location") =>
                   Last(sentEmails').body.location = req.formData["location"]
             /\ Has(req.formData, "temperature") =>
                   Last(sentEmails').body.temperature = req.formData["temperature"]]_vars

\* the weather node stored 28.5 and the condition node true; the form node
\* that came after replaced the temperature with the submitted 30.0 and the
\* condition result with the submitted string
C38_Witness ==
    /\ pc = "nextNodes"
    /\ Len(steps) = 4
    /\ steps[2].type = "integration" /\ steps[2].output["temperature"] = Num(285)
    /\ steps[3].type = "condition" /\ steps[3].output["conditionMet"] = Bool(TRUE)
    /\ steps[4].type = "form" /\ steps[4].status = "completed"
    /\ variables["temperature"] = Num(300)
    /\ variables["conditionMet"] = Str("yes")

====
